---- MODULE Spec2Model ----
(***************************************************************************)
(* A model of proj2tex.py (Projection To Texture, a Maya script).          *)
(*                                                                         *)
(* Numbers.  Python floats are modelled in fixed point with half-unit      *)
(* resolution: the integer n stands for the value n/2, so Fx(k) = k + k is *)
(* the value k, and halving a sum or difference of two host coordinates    *)
(* (which the host reports as whole numbers here) is exact, as it is in    *)
(* floating point.  sqrt and unit conversion round down to the resolution. *)
(*                                                                         *)
(* Host.  The Maya scene is `nodes` (node name -> attributes) and `conns`  *)
(* (attribute connections); windows and editors are `ui`; the file system  *)
(* is `files` (path -> content).  Every path the script derives is kept as *)
(* a record of its parts, so two derived paths are equal exactly when      *)
(* their parts are.                                                        *)
(***************************************************************************)
EXTENDS Integers, Sequences, FiniteSets, TLC

VARIABLES
    \* --- Proj2Tex fields (proj2tex.py:70-77)
    projections,        \* Seq of [name, direction, image_path]
    layers,             \* Seq of [name, color_proj_name, transparency_proj_name]
    targets,            \* set of target names
    projection_padding, \* padding fraction, in percent
    \* --- host state
    worldBox,           \* exactWorldBoundingBox of the target geometry
    unit,               \* current linear unit of the scene
    nodes,              \* scene nodes: name -> attributes
    conns,              \* attribute connections
    ui,                 \* existing windows / model editors
    files,              \* file system: path -> content
    \* --- the call in progress / the last call
    call,               \* name of the stage method
    pc,                 \* position inside the method
    err,                \* exception in flight or raised ("ok" when none)
    loc,                \* local variables of the method
    trace,              \* external effects performed by the call, in order
    before,             \* host state when the call began
    \* --- the session
    gui,                \* the widgets of the script's window
    history             \* the calls that have ended, in order, with their results

vars == <<projections, layers, targets, projection_padding, worldBox, unit,
          nodes, conns, ui, files, call, pc, err, loc, trace, before, gui, history>>


sessionVars == <<gui, history>>

\* what a stage method leaves alone: the fields of its object and the session
cfgVars == <<projections, layers, targets, projection_padding, sessionVars>>

-----------------------------------------------------------------------------
(* Bounds of the model *)

MaxCoord == 1
MaxLayers == 3

-----------------------------------------------------------------------------
(* Fixed point *)

Fx(k) == k + k

Half(v) == v \div 2

\* math.sqrt, rounded down to the resolution
Sqrt(n) == CHOOSE r \in 0..n : r * r <= n /\ n < (r + 1) * (r + 1)

NoValue == "None"

-----------------------------------------------------------------------------
(* Constants of the script *)

DIRECTION_FRONT == "front"
DIRECTION_BACK == "back"
DIRECTION_SIDE == "side"
DIRECTION_TOP == "top"
DIRECTION_BOTTOM == "bottom"

VALID_DIRECTIONS ==
    {DIRECTION_FRONT, DIRECTION_BACK, DIRECTION_SIDE, DIRECTION_TOP, DIRECTION_BOTTOM}

\* a direction string the script does not know
OtherDirection == "diagonal"

-----------------------------------------------------------------------------
(* Names and paths derived from the configuration *)

NodeName(prefix, id) == [prefix |-> prefix, id |-> id, n |-> 0]

place3dTexture(proj) == NodeName("place3dTex_", {proj.name})

projection(proj) == NodeName("proj_", {proj.name})

file(proj) == NodeName("projFile_", {proj.name})

layer_material(l) == NodeName("layerMat_", {l.name})

_shader(geom) == NodeName("_shader", {geom})

_shader_file(geom) == NodeName("_file", {geom})

Path(kind, base, geom, idx) == [kind |-> kind, base |-> base, geom |-> geom, idx |-> idx]

\* '<image>_baked_<geom>.<fmt>'
baked_image_path(proj, geom) == Path("baked", proj.image_path, geom, 0)

\* the combined_image_path field of the Proj2Tex object
combined_image_path == "combined.png"

\* '<combined>_<geom>.<fmt>'
_combined_image_path(geom) == Path("combined", combined_image_path, geom, 0)

\* '<combined>_<geom>.tmp<i>.<fmt>'
TmpImagePath(geom, i) == Path("tmp", combined_image_path, geom, i)

\* '<image_path>.tmp.0001<ext>', the file playblast writes
TmpScreenshotPath(proj) == Path("screenshot_tmp", proj.image_path, "", 0)

ImagePath(proj) == Path("image", proj.image_path, "", 0)

-----------------------------------------------------------------------------
(* Targets *)

Meshes == {"geoA", "geoB"}

\* shader targets and the geometry their shading group is assigned to;
\* shdX is assigned to none
ShaderGeometry == [shdA |-> "geoA", shdX |-> NoValue]

is_target_shader(target) == target \in DOMAIN ShaderGeometry

get_target_geometry(target) ==
    IF is_target_shader(target) THEN ShaderGeometry[target] ELSE target

\* every target taken as a geometry of its own
TargetsAsGeometry(tgts) == tgts

_get_all_target_geometry(tgts) == {get_target_geometry(t) : t \in tgts}

_layered_shader(tgts) == NodeName("layered_shader", _get_all_target_geometry(tgts))

-----------------------------------------------------------------------------
(* Scene primitives (maya.cmds) *)

Zero3 == <<0, 0, 0>>

DefaultAttrs(type) ==
    [type |-> type, t |-> Zero3, r |-> Zero3, s |-> <<Fx(1), Fx(1), Fx(1)>>, tex |-> NoValue]

objExists(sc, nm) == nm \in DOMAIN sc.nodes

delete(sc, nm) ==
    [nodes |-> [x \in DOMAIN sc.nodes \ {nm} |-> sc.nodes[x]],
     conns |-> {c \in sc.conns : c.src # nm /\ c.dst # nm}]

deleteIfExists(sc, nm) == IF objExists(sc, nm) THEN delete(sc, nm) ELSE sc

\* Maya never reuses a taken name: the new node gets the first free numbered one
FreeName(sc, nm) ==
    LET taken == {x.n : x \in {y \in DOMAIN sc.nodes : y.prefix = nm.prefix /\ y.id = nm.id}}
        k == CHOOSE i \in 0..Cardinality(taken) : i \notin taken
    IN [nm EXCEPT !.n = k]

shadingNode(sc, nm, type) ==
    [sc EXCEPT !.nodes = (FreeName(sc, nm) :> DefaultAttrs(type)) @@ sc.nodes]

connectAttr(sc, src, out, dst, in) ==
    [sc EXCEPT !.conns =
        {c \in sc.conns : ~(c.dst = dst /\ c.in = in)}
            \cup {[src |-> src, out |-> out, dst |-> dst, in |-> in]}]

-----------------------------------------------------------------------------
(* Teardown *)

RECURSIVE ClearProjLoop(_, _, _)
ClearProjLoop(sc, projs, k) ==
    IF k > Len(projs) THEN sc
    ELSE ClearProjLoop(
            deleteIfExists(deleteIfExists(deleteIfExists(sc,
                place3dTexture(projs[k])), projection(projs[k])), file(projs[k])),
            projs, k + 1)

\* nothing is deleted
KeepProjections(sc, projs) == sc

_clear_projections(sc, projs) == ClearProjLoop(sc, projs, 1)

RECURSIVE ClearLayerLoop(_, _, _)
ClearLayerLoop(sc, ls, k) ==
    IF k > Len(ls) THEN sc
    ELSE ClearLayerLoop(deleteIfExists(sc, layer_material(ls[k])), ls, k + 1)

_clear_layered_shader(sc, ls, tgts) ==
    deleteIfExists(ClearLayerLoop(sc, ls, 1), _layered_shader(tgts))

RECURSIVE ClearGeomLoop(_, _)
ClearGeomLoop(sc, geoms) ==
    IF geoms = {} THEN sc
    ELSE LET g == CHOOSE x \in geoms : TRUE
         IN ClearGeomLoop(deleteIfExists(deleteIfExists(sc, _shader(g)), _shader_file(g)),
                          geoms \ {g})

clear_nodes(sc, projs, ls, tgts) ==
    ClearGeomLoop(_clear_layered_shader(_clear_projections(sc, projs), ls, tgts),
                  _get_all_target_geometry(tgts))

-----------------------------------------------------------------------------
(* Bounding box and projector placement *)

Box(x0, y0, z0, x1, y1, z1) ==
    [xmin |-> x0, ymin |-> y0, zmin |-> z0, xmax |-> x1, ymax |-> y1, zmax |-> z1]

Square(v) == v * v

\* the additive margin: projection_padding * length of the diagonal
Padding(b, pct) ==
    (pct * Sqrt(Square(b.xmax - b.xmin) + Square(b.ymax - b.ymin) + Square(b.zmax - b.zmin)))
        \div 100

PerAxisBBox(b, pct) ==
    LET px == (pct * (b.xmax - b.xmin)) \div 100
        py == (pct * (b.ymax - b.ymin)) \div 100
        pz == (pct * (b.zmax - b.zmin)) \div 100
    IN Box(b.xmin - px, b.ymin - py, b.zmin - pz, b.xmax + px, b.ymax + py, b.zmax + pz)

compute_bbox(b, pct) ==
    LET padding == Padding(b, pct)
        xc == Half(b.xmin + b.xmax)
        yc == Half(b.ymin + b.ymax)
        zc == Half(b.zmin + b.zmax)
        extX == Half(b.xmax - b.xmin)
        extY == Half(b.ymax - b.ymin)
        extZ == Half(b.zmax - b.zmin)
    IN Box(xc - extX - padding, yc - extY - padding, zc - extZ - padding,
           xc + extX + padding, yc + extY + padding, zc + extZ + padding)

\* centimetres per linear unit, as a fraction
UnitNum == [cm |-> 1, m |-> 100, mm |-> 1]
UnitDen == [cm |-> 1, m |-> 1, mm |-> 10]
Units == {"cm", "m", "mm"}

convert_to_cm(val, u) == (val * UnitNum[u]) \div UnitDen[u]

MirroredPlacement(bb, direction, u) ==
    LET posX == Half(bb.xmin + bb.xmax)
        posY == Half(bb.ymin + bb.ymax)
        posZ == Half(bb.zmin + bb.zmax)
        extX == Half(bb.xmax - bb.xmin)
        extY == Half(bb.ymax - bb.ymin)
        extZ == Half(bb.zmax - bb.zmin)
    IN CASE direction = DIRECTION_FRONT ->
              [t |-> <<posX, posY, posZ + extZ>>, r |-> <<Fx(0), Fx(0), Fx(0)>>,
               s |-> <<convert_to_cm(extX, u), convert_to_cm(extY, u), Fx(1)>>]
         [] direction = DIRECTION_BACK ->
              [t |-> <<posX, posY, posZ + extZ>>, r |-> <<Fx(0), Fx(180), Fx(0)>>,
               s |-> <<convert_to_cm(extX, u), convert_to_cm(extY, u), Fx(1)>>]
         [] direction = DIRECTION_SIDE ->
              [t |-> <<posX + extX, posY, posZ>>, r |-> <<Fx(0), Fx(90), Fx(0)>>,
               s |-> <<convert_to_cm(extX, u), convert_to_cm(extY, u), Fx(1)>>]
         [] direction = DIRECTION_TOP ->
              [t |-> <<posX, posY + extY, posZ>>, r |-> <<Fx(-90), Fx(0), Fx(0)>>,
               s |-> <<convert_to_cm(extX, u), convert_to_cm(extZ, u), Fx(1)>>]
         [] OTHER ->
              [t |-> <<posX, posY + extY, posZ>>, r |-> <<Fx(90), Fx(0), Fx(0)>>,
               s |-> <<convert_to_cm(extX, u), convert_to_cm(extZ, u), Fx(1)>>]

\* lines 157-180: translate, rotate and scale of the place3dTexture node
GatePlacement(bb, direction, u) ==
    LET posX == Half(bb.xmin + bb.xmax)
        posY == Half(bb.ymin + bb.ymax)
        posZ == Half(bb.zmin + bb.zmax)
        extX == Half(bb.xmax - bb.xmin)
        extY == Half(bb.ymax - bb.ymin)
        extZ == Half(bb.zmax - bb.zmin)
    IN CASE direction = DIRECTION_FRONT ->
              [t |-> <<posX, posY, posZ + extZ>>, r |-> <<Fx(0), Fx(0), Fx(0)>>,
               s |-> <<convert_to_cm(extX, u), convert_to_cm(extY, u), Fx(1)>>]
         [] direction = DIRECTION_BACK ->
              [t |-> <<posX, posY, posZ - extZ>>, r |-> <<Fx(0), Fx(180), Fx(0)>>,
               s |-> <<convert_to_cm(extX, u), convert_to_cm(extY, u), Fx(1)>>]
         [] direction = DIRECTION_SIDE ->
              [t |-> <<posX + extX, posY, posZ>>, r |-> <<Fx(0), Fx(90), Fx(0)>>,
               s |-> <<convert_to_cm(extZ, u), convert_to_cm(extY, u), Fx(1)>>]
         [] direction = DIRECTION_TOP ->
              [t |-> <<posX, posY + extY, posZ>>, r |-> <<Fx(-90), Fx(0), Fx(0)>>,
               s |-> <<convert_to_cm(extX, u), convert_to_cm(extZ, u), Fx(1)>>]
         [] direction = DIRECTION_BOTTOM ->
              [t |-> <<posX, posY - extY, posZ>>, r |-> <<Fx(90), Fx(0), Fx(0)>>,
               s |-> <<convert_to_cm(extX, u), convert_to_cm(extZ, u), Fx(1)>>]

\* lines 185-193
SetPlacement(sc, nm, g) ==
    [sc EXCEPT !.nodes[nm] = [@ EXCEPT !.t = g.t, !.r = g.r, !.s = g.s]]

RECURSIVE MakeProjLoop(_, _, _, _, _)
MakeProjLoop(sc, projs, k, bb, u) ==
    IF k > Len(projs) THEN [sc |-> sc, err |-> "ok"]
    ELSE LET proj == projs[k]
             s1 == shadingNode(sc, place3dTexture(proj), "place3dTexture")
         IN IF proj.direction \notin VALID_DIRECTIONS
            THEN [sc |-> s1, err |-> "UnrecognizedDirection"]
            ELSE LET s2 == SetPlacement(s1, place3dTexture(proj),
                                        GatePlacement(bb, proj.direction, u))
                     s3 == shadingNode(s2, projection(proj), "projection")
                     s4 == connectAttr(s3, place3dTexture(proj), "worldInverseMatrix",
                                       projection(proj), "placementMatrix")
                 IN MakeProjLoop(s4, projs, k + 1, bb, u)

make_projections(sc, projs, ls, tgts, box, pct, u) ==
    MakeProjLoop(clear_nodes(sc, projs, ls, tgts), projs, 1, compute_bbox(box, pct), u)

-----------------------------------------------------------------------------
(* Layered shader (stage 3) *)

UserNode(target) == NodeName("user", {target})

nodeExists(sc, nm) == nm.prefix = "user" \/ objExists(sc, nm)

hasInput(sc, dst, in) == \E c \in sc.conns : c.dst = dst /\ c.in = in

\* the first projection of that name; found = FALSE stands for the raised
\* 'no projection exists with name' exception
_find_projection_by_name(projs, name) ==
    IF \E k \in 1..Len(projs) : projs[k].name = name
    THEN [found |-> TRUE,
          proj |-> projs[CHOOSE k \in 1..Len(projs) :
                          projs[k].name = name /\ \A j \in 1..(k - 1) : projs[j].name # name]]
    ELSE [found |-> FALSE, proj |-> [name |-> name, direction |-> NoValue, image_path |-> NoValue]]

RECURSIVE FileLoop(_, _, _)
FileLoop(sc, projs, k) ==
    IF k > Len(projs) THEN [sc |-> sc, err |-> "ok"]
    ELSE LET proj == projs[k]
             s1 == shadingNode(sc, file(proj), "file")
             s2 == [s1 EXCEPT !.nodes[file(proj)].tex = proj.image_path]
         IN IF ~objExists(s2, projection(proj))
            THEN [sc |-> s2, err |-> "HostError"]
            ELSE FileLoop(connectAttr(s2, file(proj), "outColor", projection(proj), "image"),
                          projs, k + 1)

\* attribute names 'inputs[i].color' and 'inputs[i].transparency'
InColor == <<"inputs[0].color", "inputs[1].color", "inputs[2].color", "inputs[3].color",
             "inputs[4].color">>
InTransparency == <<"inputs[0].transparency", "inputs[1].transparency",
                    "inputs[2].transparency", "inputs[3].transparency",
                    "inputs[4].transparency">>

RECURSIVE LayerLoop(_, _, _, _, _)
LayerLoop(sc, projs, ls, tgts, index) ==
    IF index > Len(ls) THEN [sc |-> sc, err |-> "ok"]
    ELSE LET l == ls[index]
             mat == layer_material(l)
             s1 == shadingNode(sc, mat, "lambert")
             color_proj == _find_projection_by_name(projs, l.color_proj_name)
             transp_proj == _find_projection_by_name(projs, l.transparency_proj_name)
         IN IF ~color_proj.found THEN [sc |-> s1, err |-> "NoProjection"]
            ELSE LET s2 == connectAttr(s1, projection(color_proj.proj), "outColor", mat, "color")
                 IN IF l.transparency_proj_name # NoValue /\ ~transp_proj.found
                    THEN [sc |-> s2, err |-> "NoProjection"]
                    ELSE LET s3 == IF l.transparency_proj_name # NoValue
                                   THEN connectAttr(s2, projection(transp_proj.proj), "outColor",
                                                    mat, "transparency")
                                   ELSE s2
                             s4 == connectAttr(s3, mat, "outColor",
                                               _layered_shader(tgts), InColor[index])
                             s5 == connectAttr(s4, mat, "outTransparency",
                                               _layered_shader(tgts), InTransparency[index])
                         IN LayerLoop(s5, projs, ls, tgts, index + 1)

RECURSIVE AssignLoop(_, _, _, _)
AssignLoop(sc, tgts, order, k) ==
    IF k > Len(order) THEN [sc |-> sc, err |-> "ok"]
    ELSE LET target == order[k]
         IN IF is_target_shader(target)
            THEN IF hasInput(sc, UserNode(target), "color")
                 THEN [sc |-> sc, err |-> "HostError"]
                 ELSE AssignLoop(connectAttr(sc, _layered_shader(tgts), "outColor",
                                             UserNode(target), "color"),
                                 tgts, order, k + 1)
            ELSE AssignLoop(connectAttr(sc, _layered_shader(tgts), "assign",
                                        UserNode(target), "shader"),
                            tgts, order, k + 1)

\* `order` is the order in which the target set is iterated
make_layered_shader(sc, projs, ls, tgts, order) ==
    LET a == FileLoop(sc, projs, 1)
    IN IF a.err # "ok" THEN a
       ELSE LET b == LayerLoop(shadingNode(a.sc, _layered_shader(tgts), "layeredShader"),
                               projs, ls, tgts, 1)
            IN IF b.err # "ok" THEN b ELSE AssignLoop(b.sc, tgts, order, 1)

-----------------------------------------------------------------------------
(* Configurations and host states the specifications start from *)

ImagePaths ==
    [P1 |-> "img1.png", P2 |-> "img2.png", P3 |-> "img3.png", P4 |-> "img4.png",
     P5 |-> "img5.png"]

Proj(name, direction) ==
    [name |-> name, direction |-> direction, image_path |-> ImagePaths[name]]

LayerNames == <<"Layer1", "Layer2", "Layer3", "Layer4", "Layer5">>

Layer(k, color, transp) ==
    [name |-> LayerNames[k], color_proj_name |-> color, transparency_proj_name |-> transp]

ProjNames == {"P1", "P2"}

\* layer lists of length 1..MaxLayers: any color, with any mask or none
LayerLists ==
    UNION {[1..n -> ProjNames \X (ProjNames \cup {NoValue})] : n \in 1..MaxLayers}

\* the same, with the mask P2 or none
MaskedLayerLists ==
    UNION {[1..n -> ProjNames \X {"P2", NoValue}] : n \in 1..MaxLayers}

MakeLayers(f) == [k \in DOMAIN f |-> Layer(k, f[k][1], f[k][2])]

Perms(S) == {f \in [1..Cardinality(S) -> S] : \A i, j \in DOMAIN f : i # j => f[i] # f[j]}

Coords == {Fx(k) : k \in (0 - MaxCoord)..MaxCoord}

Intervals == {iv \in Coords \X Coords : iv[1] <= iv[2]}

\* boxes of every position and width on X, with flat, thin and deep Y and Z
AllBoxes ==
    {Box(x[1], y[1], z[1], x[2], y[2], z[2]) :
        x \in Intervals,
        y \in {<<Fx(0), Fx(0)>>, <<Fx(-1), Fx(3)>>},
        z \in {<<Fx(-4), Fx(-3)>>, <<Fx(1), Fx(7)>>}}

Pcts == {0, 10, 50}

Scene == [nodes |-> nodes, conns |-> conns]

Snapshot == [nodes |-> nodes, conns |-> conns, ui |-> ui, files |-> files]

EmptyFn == [x \in {} |-> NoValue]

HostInit ==
    /\ nodes = EmptyFn
    /\ conns = {}
    /\ ui = {}
    /\ files = EmptyFn

\* the script's window is not open: the object is driven from a script
NoGui == [open |-> FALSE]

CallInit ==
    /\ call = "none"
    /\ pc = "idle"
    /\ err = "ok"
    /\ loc = EmptyFn
    /\ trace = <<>>
    /\ before = [nodes |-> EmptyFn, conns |-> {}, ui |-> {}, files |-> EmptyFn]
    /\ gui = NoGui
    /\ history = <<>>

-----------------------------------------------------------------------------
(* Stage methods called on a Proj2Tex object; each runs to its return or raise *)

Returned(name, e, locals) ==
    /\ call' = name
    /\ pc' = "done"
    /\ err' = e
    /\ loc' = locals
    /\ trace' = <<>>
    /\ before' = Snapshot

ComputeBBoxCall ==
    /\ pc \in {"idle", "done"}
    /\ Returned("compute_bbox", "ok", [bbox |-> compute_bbox(worldBox, projection_padding)])
    /\ UNCHANGED <<cfgVars, worldBox, unit, nodes, conns, ui, files>>

MakeProjectionsCall ==
    /\ pc \in {"idle", "done"}
    /\ LET r == make_projections(Scene, projections, layers, targets,
                                 worldBox, projection_padding, unit)
       IN /\ nodes' = r.sc.nodes
          /\ conns' = r.sc.conns
          /\ Returned("make_projections", r.err,
                      [bbox |-> compute_bbox(worldBox, projection_padding)])
    /\ UNCHANGED <<cfgVars, worldBox, unit, ui, files>>

ClearNodesCall ==
    /\ pc \in {"idle", "done"}
    /\ LET sc == clear_nodes(Scene, projections, layers, targets)
       IN /\ nodes' = sc.nodes
          /\ conns' = sc.conns
    /\ Returned("clear_nodes", "ok", EmptyFn)
    /\ UNCHANGED <<cfgVars, worldBox, unit, ui, files>>

\* a repeated stage 3 leaves numbered duplicates behind; at most one round of them
MakeLayeredShaderCall ==
    /\ pc \in {"idle", "done"}
    /\ \A nm \in DOMAIN nodes : nm.n = 0
    /\ \E order \in Perms(targets) :
         LET r == make_layered_shader(Scene, projections, layers, targets, order)
         IN /\ nodes' = r.sc.nodes
            /\ conns' = r.sc.conns
            /\ Returned("make_layered_shader", r.err, EmptyFn)
    /\ UNCHANGED <<cfgVars, worldBox, unit, ui, files>>

NextScene ==
    \/ ComputeBBoxCall
    \/ MakeProjectionsCall
    \/ ClearNodesCall
    \/ MakeLayeredShaderCall

\* every box, unit and padding, with one projection per direction
InitGeom ==
    /\ projections \in
         {<<Proj("P1", DIRECTION_FRONT), Proj("P2", DIRECTION_BACK), Proj("P3", DIRECTION_SIDE),
            Proj("P4", DIRECTION_TOP), Proj("P5", DIRECTION_BOTTOM)>>,
          <<Proj("P1", DIRECTION_BACK), Proj("P2", OtherDirection)>>}
    /\ layers = <<Layer(1, "P2", "P1"), Layer(2, "P1", NoValue)>>
    /\ targets = {"geoA"}
    /\ projection_padding \in Pcts
    /\ worldBox \in AllBoxes
    /\ unit \in Units
    /\ HostInit
    /\ CallInit

SpecGeom == InitGeom /\ [][NextScene]_vars

\* every layer list over two names, with one or both of the names configured
ProjLists ==
    {<<Proj("P1", d)>> : d \in {DIRECTION_FRONT, OtherDirection}}
      \cup {<<Proj("P1", DIRECTION_FRONT), Proj("P2", d)>> : d \in {DIRECTION_SIDE, OtherDirection}}

\* a mesh; a mesh and the shader assigned to it; a shader and another mesh
TargetSets == {{"geoA"}, {"shdA", "geoA"}, {"shdA", "geoB"}}

SceneBox == Box(Fx(-1), Fx(0), Fx(-2), Fx(1), Fx(4), Fx(0))

Init ==
    /\ projections \in ProjLists
    /\ layers \in {MakeLayers(f) : f \in MaskedLayerLists}
    /\ targets \in TargetSets
    /\ projection_padding = 10
    /\ worldBox = SceneBox
    /\ unit = "cm"
    /\ HostInit
    /\ CallInit


-----------------------------------------------------------------------------
(* Files and the external image tool *)

fileExists(fs, p) == p \in DOMAIN fs

\* what a reader of path p gets
Content(fs, p) == IF fileExists(fs, p) THEN fs[p] ELSE <<"missing">>

writeFile(fs, p, c) == (p :> c) @@ fs

removeFile(fs, p) == [x \in DOMAIN fs \ {p} |-> fs[x]]

RemoveAll(fs, ps) == [x \in DOMAIN fs \ ps |-> fs[x]]

\* the image that convertSolidTx bakes for a projection and a geometry
BakedImage(proj, geom) == <<"baked", proj.image_path, geom>>

\* the image 'convert -composite <top> <bottom> <mask> <out>' writes
composite(top, bottom, mask) == <<"composite">> \o top \o bottom \o mask

\* the pixels, left and right half, of the image baked from each projection image
BakedPixels ==
    ("img1.png" :> <<"red", "red">>) @@ ("img2.png" :> <<"black", "white">>)
        @@ ("img3.png" :> <<"green", "green">>) @@ ("img4.png" :> <<"white", "black">>)
        @@ ("img5.png" :> <<"red", "green">>)

\* 'convert -composite <first> <second> <mask> <out>', pixel by pixel: the
\* second image shows where the mask is white, the first where it is black
ConvertComposite(first, second, mask) ==
    [x \in 1..Len(first) |->
        CASE mask[x] = "white" -> second[x]
          [] mask[x] = "black" -> first[x]
          [] OTHER -> "blend"]

\* the pixels of an image file, from its content in prefix form
RECURSIVE Render(_)
Render(s) ==
    CASE Len(s) >= 3 /\ s[1] = "baked" ->
            [px |-> BakedPixels[s[2]], rest |-> SubSeq(s, 4, Len(s))]
      [] Len(s) >= 1 /\ s[1] = "composite" ->
            LET first == Render(Tail(s))
                second == Render(first.rest)
                mask == Render(second.rest)
            IN [px |-> ConvertComposite(first.px, second.px, mask.px), rest |-> mask.rest]
      [] OTHER -> [px |-> <<"none", "none">>, rest |-> <<>>]

Event(op, path, res) == [op |-> op, path |-> path, res |-> res]

\* outcomes of one run of the external tool: exit 0 with the output written,
\* or a non-zero exit that left no output or some output behind
ProcessOutcomes == {"ok", "failed", "failedWithOutput"}

IgnoreExit(res) == "ok"

\* subprocess.run(..., check=True): a non-zero exit raises
CheckExit(res) == IF res = "ok" THEN "ok" ELSE "CalledProcessError"

\* the file system after the tool ran with output path out
AfterProcess(fs, out, res, image) ==
    CASE res = "ok" -> writeFile(fs, out, image)
      [] res = "failedWithOutput" -> writeFile(fs, out, <<"partial">>)
      [] OTHER -> fs

\* where ImageMagick is installed: at one of the four places the script can
\* run it from ('magick', 'convert', the MacPorts and the Homebrew path),
\* which differ in the command name only; next to the script; or nowhere
OnPath == {"path"}

MagickInstalls == OnPath \cup {"bundled", "none"}

\* the composite and crop processes started so far in the call
ToolRuns(log) ==
    Cardinality({k \in 1..Len(log) : log[k].ev = "start" /\ log[k].kind # "probe"})

ProcEvent(kind, ev, n) == [kind |-> kind, ev |-> ev, step |-> n]

Popen(log, kind) ==
    Append(log, ProcEvent(kind, "start", ToolRuns(log) + 1))

\* subprocess.run: start the process and wait until it has exited
subprocess_run(log, kind) ==
    LET n == ToolRuns(log) + 1
    IN log \o <<ProcEvent(kind, "start", n), ProcEvent(kind, "exit", n)>>

\* lines 225-258: each candidate is probed by running it; a candidate that is
\* not there raises FileNotFoundError without starting a process, and the
\* copy next to the script is taken without being run
_find_magick_convert(log, where) ==
    [found |-> where # "none",
     procs |-> IF where \in OnPath THEN subprocess_run(log, "probe") ELSE log]

-----------------------------------------------------------------------------
(* convert (stage 4) and apply_to_shaders (stage 6) *)

\* lines 399-407: one convertSolidTx per projection and geometry, in the
\* order of the projections; it raises when the projection node is missing
RECURSIVE ConvertLoop(_, _, _, _, _)
ConvertLoop(sc, fs, projs, k, geoms) ==
    IF k > Len(projs) THEN [sc |-> sc, files |-> fs, err |-> "ok"]
    ELSE IF ~objExists(sc, projection(projs[k]))
    THEN [sc |-> sc, files |-> fs, err |-> "HostError"]
    ELSE ConvertLoop(sc,
            [p \in {baked_image_path(projs[k], g) : g \in geoms} |->
                <<"baked", p.base, p.geom>>] @@ fs,
            projs, k + 1, geoms)

convert(sc, fs, projs, ls, tgts) ==
    ConvertLoop(_clear_layered_shader(sc, ls, tgts), fs, projs, 1,
                _get_all_target_geometry(tgts))

\* the string '<combined>_<geom>.<fmt>' set as fileTextureName
CombinedImageText == [geoA |-> "combined_geoA.png", geoB |-> "combined_geoB.png"]

\* lines 451-461, for the targets of one geometry that are still to do
RECURSIVE ApplyTargetLoop(_, _, _)
ApplyTargetLoop(sc, geom, todo) ==
    IF todo = {} THEN sc
    ELSE LET target == CHOOSE t \in todo : TRUE
             tgt_shader == IF is_target_shader(target) THEN UserNode(target)
                           ELSE _shader(geom)
         IN ApplyTargetLoop(
                connectAttr(sc, _shader_file(geom), "outColor", tgt_shader, "color"),
                geom, todo \ {target})

\* lines 447-464
RECURSIVE ApplyGeomLoop(_, _, _)
ApplyGeomLoop(sc, tgts, geoms) ==
    IF geoms = {} THEN sc
    ELSE LET geom == CHOOSE g \in geoms : TRUE
             mine == {t \in tgts : get_target_geometry(t) = geom}
             shader_created == \E t \in mine : ~is_target_shader(t)
             s1 == shadingNode(sc, _shader_file(geom), "file")
             s2 == [s1 EXCEPT !.nodes[_shader_file(geom)].tex = CombinedImageText[geom]]
             s3 == IF shader_created THEN shadingNode(s2, _shader(geom), "lambert") ELSE s2
             s4 == ApplyTargetLoop(s3, geom, mine)
             s5 == IF shader_created
                   THEN connectAttr(s4, _shader(geom), "assign", UserNode(geom), "shader")
                   ELSE s4
         IN ApplyGeomLoop(s5, tgts, geoms \ {geom})

apply_to_shaders(sc, projs, tgts) ==
    _clear_projections(ApplyGeomLoop(sc, tgts, _get_all_target_geometry(tgts)), projs)

ConvertCall ==
    /\ pc \in {"idle", "done"}
    /\ LET r == convert(Scene, files, projections, layers, targets)
       IN /\ nodes' = r.sc.nodes
          /\ conns' = r.sc.conns
          /\ files' = r.files
          /\ Returned("convert", r.err, EmptyFn)
    /\ UNCHANGED <<cfgVars, worldBox, unit, ui>>

\* a repeated stage 6 leaves numbered duplicates behind; at most one round of them
ApplyToShadersCall ==
    /\ pc \in {"idle", "done"}
    /\ \A nm \in DOMAIN nodes : nm.n = 0
    /\ LET sc == apply_to_shaders(Scene, projections, targets)
       IN /\ nodes' = sc.nodes
          /\ conns' = sc.conns
    /\ Returned("apply_to_shaders", "ok", EmptyFn)
    /\ UNCHANGED <<cfgVars, worldBox, unit, ui, files>>

\* the stage methods that work on the scene, called in any order
NextStages ==
    \/ NextScene
    \/ ConvertCall
    \/ ApplyToShadersCall

Spec == Init /\ [][NextStages]_vars

-----------------------------------------------------------------------------
(* combine (stage 5), step by step *)

MaskFirstCompositeCmd(color_img, img, transp_img, output_path) ==
    [top |-> transp_img, bottom |-> img, mask |-> color_img, out |-> output_path]

SwappedCompositeCmd(color_img, img, transp_img, output_path) ==
    [top |-> img, bottom |-> color_img, mask |-> transp_img, out |-> output_path]

\* line 429: conv_cmd + ['-composite', color_img, img, transp_img, output_path]
CompositeCmd(color_img, img, transp_img, output_path) ==
    [top |-> color_img, bottom |-> img, mask |-> transp_img, out |-> output_path]

Raise(e) ==
    /\ err' = e
    /\ pc' = "finally"

CombineCall ==
    /\ pc = "idle"
    /\ call' = "combine"
    /\ pc' = "geom"
    /\ err' = "ok"
    /\ trace' = <<>>
    /\ before' = Snapshot
    /\ \E order \in Perms(_get_all_target_geometry(targets)), where \in MagickInstalls :
          loc' = [geoms |-> order, g |-> 1, i |-> 0, img |-> Path("none", "", "", 0),
                  tmp_images |-> <<>>, kept |-> {}, procs |-> <<>>, magick |-> where]
    /\ UNCHANGED <<cfgVars, worldBox, unit, nodes, conns, ui, files>>

\* lines 416-419: next geometry, and the base layer's image
CombineGeom ==
    /\ call = "combine" /\ pc = "geom"
    /\ IF loc.g > Len(loc.geoms)
       THEN /\ pc' = "finally"
            /\ UNCHANGED <<err, loc>>
       ELSE IF Len(layers) = 0
       THEN /\ Raise("IndexError")
            /\ UNCHANGED loc
       ELSE LET base == _find_projection_by_name(projections, layers[Len(layers)].color_proj_name)
            IN IF ~base.found
               THEN /\ Raise("NoProjection")
                    /\ UNCHANGED loc
               ELSE /\ loc' = [loc EXCEPT !.img = baked_image_path(base.proj, loc.geoms[loc.g]),
                                          !.i = Len(layers) - 2]
                    /\ pc' = "layer"
                    /\ UNCHANGED err
    /\ UNCHANGED <<cfgVars, worldBox, unit, nodes, conns, ui, files, call, trace, before>>

\* lines 420-431: one iteration of the walk over the layers above the base
CombineLayer ==
    /\ call = "combine" /\ pc = "layer"
    /\ IF loc.i < 0
       THEN /\ pc' = "copy"
            /\ UNCHANGED <<err, loc, files, trace>>
       ELSE LET l == layers[loc.i + 1]
                geom == loc.geoms[loc.g]
                color == _find_projection_by_name(projections, l.color_proj_name)
                transp == _find_projection_by_name(projections, l.transparency_proj_name)
            IN IF ~color.found
               THEN /\ Raise("NoProjection")
                    /\ UNCHANGED <<loc, files, trace>>
               ELSE IF l.transparency_proj_name = NoValue
               THEN /\ loc' = [loc EXCEPT !.img = baked_image_path(color.proj, geom),
                                          !.i = loc.i - 1]
                    /\ UNCHANGED <<pc, err, files, trace>>
               ELSE IF ~transp.found
               THEN /\ Raise("NoProjection")
                    /\ UNCHANGED <<loc, files, trace>>
               ELSE \E res \in ProcessOutcomes :
                      LET cmd == CompositeCmd(baked_image_path(color.proj, geom), loc.img,
                                              baked_image_path(transp.proj, geom),
                                              TmpImagePath(geom, loc.i))
                          tool == _find_magick_convert(loc.procs, loc.magick)
                      IN IF ~tool.found
                         THEN /\ Raise("ImageMagickNotFound")
                              /\ UNCHANGED <<loc, files, trace>>
                         ELSE /\ files' = AfterProcess(files, cmd.out, res,
                                             composite(Content(files, cmd.top),
                                                       Content(files, cmd.bottom),
                                                       Content(files, cmd.mask)))
                              /\ trace' = Append(trace, Event("composite", cmd.out, res))
                              /\ IF CheckExit(res) = "ok"
                                 THEN /\ loc' = [loc EXCEPT
                                                   !.procs = subprocess_run(tool.procs, "composite"),
                                                   !.tmp_images = Append(@, cmd.out),
                                                   !.img = cmd.out,
                                                   !.i = loc.i - 1]
                                      /\ UNCHANGED <<pc, err>>
                                 ELSE /\ Raise(CheckExit(res))
                                      /\ loc' = [loc EXCEPT
                                                   !.procs = subprocess_run(tool.procs, "composite")]
    /\ UNCHANGED <<cfgVars, worldBox, unit, nodes, conns, ui, call, before>>

\* line 432: shutil.copy(img, combined_img_path)
CombineCopy ==
    /\ call = "combine" /\ pc = "copy"
    /\ LET dst == _combined_image_path(loc.geoms[loc.g])
       IN \E copied \in BOOLEAN :
            IF copied /\ fileExists(files, loc.img)
            THEN /\ files' = writeFile(files, dst, files[loc.img])
                 /\ trace' = Append(trace, Event("copy", dst, "ok"))
                 /\ loc' = [loc EXCEPT !.g = loc.g + 1]
                 /\ pc' = "geom"
                 /\ UNCHANGED err
            ELSE /\ Raise("OSError")
                 /\ trace' = Append(trace, Event("copy", dst, "failed"))
                 /\ UNCHANGED <<loc, files>>
    /\ UNCHANGED <<cfgVars, worldBox, unit, nodes, conns, ui, call, before>>

Range(q) == {q[k] : k \in 1..Len(q)}

\* lines 433-438: os.remove of every registered temporary image; a remove
\* that fails (the paths in kept) is only reported
CombineFinally ==
    /\ call = "combine" /\ pc = "finally"
    /\ \E kept \in SUBSET Range(loc.tmp_images) :
         /\ files' = RemoveAll(files, Range(loc.tmp_images) \ kept)
         /\ loc' = [loc EXCEPT !.kept = kept]
    /\ pc' = "done"
    /\ UNCHANGED <<cfgVars, worldBox, unit, nodes, conns, ui, call, err, trace, before>>

NextCombine ==
    \/ CombineCall
    \/ CombineGeom
    \/ CombineLayer
    \/ CombineCopy
    \/ CombineFinally

\* the file system after convert (stage 4): every projection baked on every geometry
BakedFiles(projs, tgts) ==
    LET pairs == {<<k, g>> : k \in 1..Len(projs), g \in _get_all_target_geometry(tgts)}
        paths == {baked_image_path(projs[pg[1]], pg[2]) : pg \in pairs}
    IN [p \in paths |-> <<"baked", p.base, p.geom>>]

\* the scene after make_projections (stage 1), whether it returned or raised
PlacedScene == make_projections([nodes |-> EmptyFn, conns |-> {}], projections, layers,
                                targets, worldBox, projection_padding, unit).sc

RunHostInit ==
    /\ nodes = PlacedScene.nodes
    /\ conns = PlacedScene.conns
    /\ ui = {}
    /\ files = BakedFiles(projections, targets)

\* every layer list, with one or both of the names it uses configured, for
\* mesh and shader targets
InitLayers ==
    /\ projections \in {<<Proj("P1", DIRECTION_FRONT)>>,
                        <<Proj("P1", DIRECTION_FRONT), Proj("P2", DIRECTION_SIDE)>>}
    /\ layers \in {MakeLayers(f) : f \in LayerLists}
    /\ targets \in TargetSets
    /\ projection_padding = 10
    /\ worldBox = SceneBox
    /\ unit = "cm"
    /\ RunHostInit
    /\ CallInit

\* a masked layer over a base layer, for every choice of the three images
InitPixels ==
    /\ projections = <<Proj("P1", DIRECTION_FRONT), Proj("P2", DIRECTION_BACK),
                       Proj("P3", DIRECTION_SIDE), Proj("P4", DIRECTION_TOP),
                       Proj("P5", DIRECTION_BOTTOM)>>
    /\ layers \in {<<Layer(1, g, m), Layer(2, r, NoValue)>> : g, m, r \in DOMAIN ImagePaths}
    /\ targets = {"geoA"}
    /\ projection_padding = 10
    /\ worldBox = SceneBox
    /\ unit = "cm"
    /\ RunHostInit
    /\ CallInit

-----------------------------------------------------------------------------
(* save_screenshots (stage 2), step by step *)

ScreenshotCam == NodeName("proj_screenshot_cam", {})

ScreenshotWindow == "proj_screenshot_window"

ModelEditor == "modelEditor"

FlatCorners(bb, direction) ==
    LET midX == Half(bb.xmin + bb.xmax)
        midY == Half(bb.ymin + bb.ymax)
        midZ == Half(bb.zmin + bb.zmax)
    IN CASE direction = DIRECTION_FRONT ->
              << <<bb.xmin, bb.ymin, midZ>>, <<bb.xmax, bb.ymax, midZ>> >>
         [] direction = DIRECTION_BACK ->
              << <<bb.xmax, bb.ymin, midZ>>, <<bb.xmax, bb.ymax, midZ>> >>
         [] direction = DIRECTION_SIDE ->
              << <<midX, bb.ymin, bb.zmax>>, <<midX, bb.ymax, bb.zmax>> >>
         [] direction = DIRECTION_TOP ->
              << <<bb.xmin, bb.ymin, bb.zmax>>, <<bb.xmax, bb.ymin, bb.zmin>> >>
         [] OTHER ->
              << <<bb.xmin, midY, bb.zmin>>, <<bb.xmax, midY, bb.zmin>> >>

\* lines 317-341: the two world-space points handed to _world_to_viewport_pt
CropCorners(bb, direction) ==
    LET midX == Half(bb.xmin + bb.xmax)
        midY == Half(bb.ymin + bb.ymax)
        midZ == Half(bb.zmin + bb.zmax)
    IN CASE direction = DIRECTION_FRONT ->
              << <<bb.xmin, bb.ymin, midZ>>, <<bb.xmax, bb.ymax, midZ>> >>
         [] direction = DIRECTION_BACK ->
              << <<bb.xmax, bb.ymin, midZ>>, <<bb.xmin, bb.ymax, midZ>> >>
         [] direction = DIRECTION_SIDE ->
              << <<midX, bb.ymin, bb.zmax>>, <<midX, bb.ymax, bb.zmin>> >>
         [] direction = DIRECTION_TOP ->
              << <<bb.xmin, midY, bb.zmax>>, <<bb.xmax, midY, bb.zmin>> >>
         [] direction = DIRECTION_BOTTOM ->
              << <<bb.xmin, midY, bb.zmin>>, <<bb.xmax, midY, bb.zmax>> >>

\* lines 261-266: sizes, the padded box, and the orthographic camera
ShotsCall ==
    /\ pc = "idle"
    /\ call' = "save_screenshots"
    /\ pc' = "window"
    /\ err' = "ok"
    /\ trace' = <<>>
    /\ before' = Snapshot
    /\ LET cam == FreeName(Scene, ScreenshotCam)
       IN /\ nodes' = shadingNode(Scene, ScreenshotCam, "camera").nodes
          /\ \E where \in MagickInstalls :
               loc' = [bbox |-> compute_bbox(worldBox, projection_padding), scr_cam |-> cam,
                       bound |-> FALSE, k |-> 1,
                       corners |-> [direction |-> NoValue, pts |-> <<>>], kept |-> {},
                       procs |-> <<>>, magick |-> where]
    /\ UNCHANGED <<cfgVars, worldBox, unit, conns, ui, files>>

\* how far the construction of the window gets: all of it, or a host call
\* after cmds.window raises in the first or in the second round
WindowOutcomes == {"ok", "first", "second"}

\* lines 268-290: the window and its model editor, built twice; the first
\* pair is deleted again.  cmds.window raises when the name is taken.
\* loc.bound tells whether the local meditor has been assigned.
ShotsWindow ==
    /\ call = "save_screenshots" /\ pc = "window"
    /\ \E built \in WindowOutcomes :
         IF ScreenshotWindow \in ui
         THEN /\ Raise("HostError")
              /\ UNCHANGED <<ui, loc>>
         ELSE CASE built = "first" ->
                     /\ ui' = ui \cup {ScreenshotWindow}
                     /\ Raise("HostError")
                     /\ UNCHANGED loc
                [] built = "second" ->
                     /\ ui' = ui \cup {ScreenshotWindow}
                     /\ loc' = [loc EXCEPT !.bound = TRUE]
                     /\ Raise("HostError")
                [] OTHER ->
                     /\ ui' = ui \cup {ScreenshotWindow, ModelEditor}
                     /\ loc' = [loc EXCEPT !.bound = TRUE]
                     /\ pc' = "capture"
                     /\ UNCHANGED err
    /\ UNCHANGED <<cfgVars, worldBox, unit, nodes, conns, files, call, trace, before>>

\* lines 291-314: aim the camera like the projection's gate and playblast
ShotsCapture ==
    /\ call = "save_screenshots" /\ pc = "capture"
    /\ IF loc.k > Len(projections)
       THEN /\ pc' = "finally"
            /\ UNCHANGED <<err, nodes, files, trace>>
       ELSE LET proj == projections[loc.k]
            IN IF ~objExists(Scene, place3dTexture(proj))
               THEN /\ Raise("HostError")
                    /\ UNCHANGED <<nodes, files, trace>>
               ELSE /\ nodes' = [nodes EXCEPT ![loc.scr_cam].r = nodes[place3dTexture(proj)].r]
                    /\ \E shot \in BOOLEAN :
                         IF shot
                         THEN /\ files' = writeFile(files, TmpScreenshotPath(proj),
                                                    <<"screenshot", proj.image_path>>)
                              /\ trace' = Append(trace,
                                                 Event("playblast", TmpScreenshotPath(proj), "ok"))
                              /\ pc' = "crop"
                              /\ UNCHANGED err
                         ELSE /\ Raise("HostError")
                              /\ UNCHANGED <<files, trace>>
    /\ UNCHANGED <<cfgVars, worldBox, unit, conns, ui, call, loc, before>>

\* lines 316-353: the crop corners, their viewport positions (either may be
\* clipped, which fails the assert) and the crop by the external tool
ShotsCrop ==
    /\ call = "save_screenshots" /\ pc = "crop"
    /\ LET proj == projections[loc.k]
       IN IF proj.direction \notin VALID_DIRECTIONS
          THEN /\ Raise("UnrecognizedDirection")
               /\ UNCHANGED <<loc, files, trace>>
          ELSE \E clipped \in 0..2, res \in ProcessOutcomes :
                 LET pts == CropCorners(loc.bbox, proj.direction)
                     tool == _find_magick_convert(loc.procs, loc.magick)
                     corners == [direction |-> proj.direction, pts |-> pts]
                 IN IF clipped > 0
                    THEN /\ Raise("AssertionError")
                         /\ loc' = [loc EXCEPT
                                      !.corners = [direction |-> proj.direction,
                                                   pts |-> SubSeq(pts, 1, clipped)]]
                         /\ UNCHANGED <<files, trace>>
                    ELSE IF ~tool.found
                            THEN /\ Raise("ImageMagickNotFound")
                                 /\ loc' = [loc EXCEPT !.corners = corners]
                                 /\ UNCHANGED <<files, trace>>
                            ELSE /\ loc' = [loc EXCEPT
                                              !.corners = corners,
                                              !.procs = subprocess_run(tool.procs, "crop")]
                                 /\ files' = AfterProcess(files, ImagePath(proj), res,
                                                          <<"cropped", proj.image_path>>)
                                 /\ trace' = Append(trace, Event("crop", ImagePath(proj), res))
                                 /\ IF CheckExit(res) = "ok"
                                    THEN /\ pc' = "remove"
                                         /\ UNCHANGED err
                                    ELSE Raise(CheckExit(res))
    /\ UNCHANGED <<cfgVars, worldBox, unit, nodes, conns, ui, call, before>>

\* lines 355-358: os.remove of the temporary screenshot; a failure is reported
ShotsRemove ==
    /\ call = "save_screenshots" /\ pc = "remove"
    /\ LET tmp == TmpScreenshotPath(projections[loc.k])
       IN \E removed \in BOOLEAN :
            /\ files' = IF removed THEN removeFile(files, tmp) ELSE files
            /\ loc' = [loc EXCEPT !.k = loc.k + 1,
                                  !.kept = IF removed THEN @ ELSE @ \cup {tmp}]
            /\ trace' = Append(trace, Event("remove", tmp, IF removed THEN "ok" ELSE "failed"))
    /\ pc' = "capture"
    /\ UNCHANGED <<cfgVars, worldBox, unit, nodes, conns, ui, call, err, before>>

\* lines 360-363: deleteUI(meditor), deleteUI(window), delete(scr_cam); when
\* meditor was never assigned, or names an editor that is already deleted,
\* the first line raises and the other two are not reached
ShotsFinally ==
    /\ call = "save_screenshots" /\ pc = "finally"
    /\ IF ~loc.bound
       THEN /\ err' = "UnboundLocalError"
            /\ UNCHANGED <<ui, nodes>>
       ELSE IF ModelEditor \notin ui
       THEN /\ err' = "HostError"
            /\ UNCHANGED <<ui, nodes>>
       ELSE /\ ui' = ui \ {ModelEditor, ScreenshotWindow}
            /\ nodes' = delete(Scene, loc.scr_cam).nodes
            /\ UNCHANGED err
    /\ pc' = "done"
    /\ UNCHANGED <<cfgVars, worldBox, unit, conns, files, call, loc, trace, before>>

NextShots ==
    \/ ShotsCall
    \/ ShotsWindow
    \/ ShotsCapture
    \/ ShotsCrop
    \/ ShotsRemove
    \/ ShotsFinally

\* every box, unit and padding, one projection of each direction, known or
\* not, and pairs of projections
InitDirections ==
    /\ projections \in
         {<<Proj("P1", d)>> : d \in VALID_DIRECTIONS \cup {OtherDirection}}
           \cup {<<Proj("P1", DIRECTION_FRONT), Proj("P2", OtherDirection)>>,
                 <<Proj("P1", DIRECTION_SIDE), Proj("P2", DIRECTION_TOP)>>}
    /\ layers = <<Layer(1, "P1", NoValue)>>
    /\ targets = {"geoA"}
    /\ projection_padding \in Pcts
    /\ worldBox \in AllBoxes
    /\ unit \in {"cm", "m"}
    /\ RunHostInit
    /\ CallInit

\* stage 6 right after a stage 5 that returned
ApplyAfterCombine ==
    /\ call = "combine" /\ pc = "done" /\ err = "ok"
    /\ ApplyToShadersCall

\* one run of stage 2, or one of stage 5 and then stage 6
SpecRun ==
    (InitLayers \/ InitDirections \/ InitPixels)
        /\ [][NextCombine \/ NextShots \/ ApplyAfterCombine]_vars

-----------------------------------------------------------------------------
(* The six stages in order, as the numbered buttons are meant to be pressed *)

STAGES == <<"make_projections", "save_screenshots", "make_layered_shader",
            "convert", "combine", "apply_to_shaders">>

\* the stage that returned is recorded and the next button can be pressed
Advance ==
    /\ pc = "done" /\ err = "ok"
    /\ Len(history) < Len(STAGES)
    /\ history' = Append(history, call)
    /\ pc' = "idle"
    /\ loc' = EmptyFn
    /\ trace' = <<>>
    /\ before' = Snapshot
    /\ UNCHANGED <<projections, layers, targets, projection_padding, gui, worldBox,
                   unit, nodes, conns, ui, files, call, err>>

NextStage(name) == pc = "idle" /\ Len(history) < Len(STAGES) /\ STAGES[Len(history) + 1] = name

Stage1 == NextStage("make_projections") /\ MakeProjectionsCall

Stage2 == NextStage("save_screenshots") /\ ShotsCall

Stage3 == NextStage("make_layered_shader") /\ MakeLayeredShaderCall

Stage4 == NextStage("convert") /\ ConvertCall

Stage5 == NextStage("combine") /\ CombineCall

Stage6 == NextStage("apply_to_shaders") /\ ApplyToShadersCall

NextPipeline ==
    \/ Stage1
    \/ Stage2
    \/ ShotsWindow
    \/ ShotsCapture
    \/ ShotsCrop
    \/ ShotsRemove
    \/ ShotsFinally
    \/ Stage3
    \/ Stage4
    \/ Stage5
    \/ CombineGeom
    \/ CombineLayer
    \/ CombineCopy
    \/ CombineFinally
    \/ Stage6
    \/ Advance

\* an empty scene; one layer, or a masked layer over a base layer
InitPipeline ==
    /\ projections = <<Proj("P1", DIRECTION_FRONT), Proj("P2", DIRECTION_SIDE)>>
    /\ layers \in {<<Layer(1, "P1", NoValue)>>,
                    <<Layer(1, "P1", "P2"), Layer(2, "P2", NoValue)>>}
    /\ targets \in TargetSets
    /\ projection_padding = 10
    /\ worldBox = SceneBox
    /\ unit = "cm"
    /\ HostInit
    /\ CallInit

SpecPipeline == InitPipeline /\ [][NextPipeline]_vars

-----------------------------------------------------------------------------
(* The window of run(): its fields, and the configuration document *)

maxLayers == 4

\* the rows of the projection grid (lines 637-643), with the names that
\* '{}ColorProj' and '{}AlphaProj' give
projControls ==
    <<[name |-> "Front", direction |-> DIRECTION_FRONT, color |-> "FrontColorProj", alpha |-> "FrontAlphaProj"],
      [name |-> "Back", direction |-> DIRECTION_BACK, color |-> "BackColorProj", alpha |-> "BackAlphaProj"],
      [name |-> "Side", direction |-> DIRECTION_SIDE, color |-> "SideColorProj", alpha |-> "SideAlphaProj"],
      [name |-> "Top", direction |-> DIRECTION_TOP, color |-> "TopColorProj", alpha |-> "TopAlphaProj"],
      [name |-> "Bottom", direction |-> DIRECTION_BOTTOM, color |-> "BottomColorProj", alpha |-> "BottomAlphaProj"]>>

\* the one directory that exists, on drive C:
OutputDirectory == "C:\\out"

ConfigPath == Path("config.xml", "", "", 0)

\* the window as run() builds it (lines 569-687), after the output directory
\* was browsed (which enables the buttons) and a mesh was added as target.
\* A menu selection is the 1-based index of the item: 1 is the empty item,
\* k + 1 is row k of the projection grid.
DefaultUi ==
    [open |-> TRUE, enabled |-> TRUE,
     targets |-> <<"geoA">>, outdir |-> OutputDirectory,
     checked |-> <<TRUE, TRUE, TRUE, FALSE, FALSE>>,
     color |-> <<"front.png", "back.png", "", "", "">>,
     alpha |-> <<"", "", "sideAlpha.png", "", "">>,
     layerColor |-> <<2, 3, 1, 1>>,
     layerAlpha |-> <<4, 1, 1, 1>>,
     combined |-> "combined.png", padding |-> "10", screenshotRes |-> "512",
     convertedResWidth |-> "512", convertedResHeight |-> "512", fillTextureSeams |-> TRUE]

\* str.strip on the texts that carry blanks; every other text has none
Stripped ==
    (" front.png " :> "front.png") @@ ("  " :> "") @@ (" 10 " :> "10")
        @@ (" 512 " :> "512") @@ (" geoA" :> "geoA") @@ ("shdA " :> "shdA")

strip(s) == IF s \in DOMAIN Stripped THEN Stripped[s] ELSE s

\* str(float(text)); float raises ValueError on every other text
FloatStr ==
    ("10" :> "10.0") @@ ("10.0" :> "10.0") @@ ("7" :> "7.0") @@ ("7.0" :> "7.0")
        @@ ("7.000000000000001" :> "7.000000000000001")

\* float(text)/100.0 and str(x*100.0), in Python's repr of the doubles
Hundredth == ("10.0" :> "0.1") @@ ("7.0" :> "0.07") @@ ("7.000000000000001" :> "0.07")

TimesHundred == ("0.1" :> "10.0") @@ ("0.07" :> "7.000000000000001")

\* int(text), raising ValueError on every other text, and str(int)
IntValue == ("512" :> 512) @@ ("0512" :> 512) @@ ("256" :> 256)

IntStr == (512 :> "512") @@ (256 :> "256")

\* os.path.join(OutputDirectory, path) (ntpath): an absolute path stays
abs_path ==
    ("front.png" :> "C:\\out\\front.png") @@ ("back.png" :> "C:\\out\\back.png")
        @@ ("sideAlpha.png" :> "C:\\out\\sideAlpha.png")
        @@ ("combined.png" :> "C:\\out\\combined.png")
        @@ (".\\front.png" :> "C:\\out\\.\\front.png")
        @@ ("..\\art\\front.png" :> "C:\\out\\..\\art\\front.png")
        @@ ("C:\\art\\front.png" :> "C:\\art\\front.png")
        @@ ("D:\\tex\\front.png" :> "D:\\tex\\front.png")

\* os.path.relpath(os.path.abspath(path), OutputDirectory) (ntpath): relpath
\* raises ValueError for a path on another drive
relativizePath ==
    ("C:\\out\\front.png" :> "front.png") @@ ("C:\\out\\back.png" :> "back.png")
        @@ ("C:\\out\\sideAlpha.png" :> "sideAlpha.png")
        @@ ("C:\\out\\combined.png" :> "combined.png")
        @@ ("C:\\out\\.\\front.png" :> "front.png")
        @@ ("C:\\out\\..\\art\\front.png" :> "..\\art\\front.png")
        @@ ("C:\\art\\front.png" :> "..\\art\\front.png")
        @@ ("D:\\tex\\front.png" :> "ValueError")

\* cmds.textField(outputDirTextField) when the directory exists, else None
getOutputDirectory(g) == IF g.outdir = OutputDirectory THEN OutputDirectory ELSE NoValue

\* lines 572-575: the text split at commas, stripped, without empty pieces
getTargets(g) == {strip(g.targets[k]) : k \in 1..Len(g.targets)} \ {""}

\* lines 752-766: the projection elements of rows k and after
RECURSIVE ProjectionElements(_, _)
ProjectionElements(g, k) ==
    IF k > Len(projControls) THEN <<>>
    ELSE LET row == projControls[k]
             colorPath == strip(g.color[k])
             alphaPath == strip(g.alpha[k])
             c == IF g.checked[k] /\ colorPath # ""
                  THEN <<[name |-> row.color, direction |-> row.direction, imagePath |-> colorPath]>>
                  ELSE <<>>
             a == IF g.checked[k] /\ alphaPath # ""
                  THEN <<[name |-> row.alpha, direction |-> row.direction, imagePath |-> alphaPath]>>
                  ELSE <<>>
         IN c \o a \o ProjectionElements(g, k + 1)

\* line 769: the rows of the layer grid whose color menu is not on the empty item
activeLayerControls(g) == SelectSeq([k \in 1..maxLayers |-> k], LAMBDA k : g.layerColor[k] > 1)

\* no layer gets a transparency
NeverTransparent(numLayers, i) == FALSE

\* line 780: every document layer but the last gets a transparency
hasTransparency(numLayers, i) == i < numLayers - 1

\* every row counts as present
AnyRow(g, k) == TRUE

\* lines 777 and 784: the row is checked and its field is not blank
colorProjectionExists(g, k) == g.checked[k] /\ strip(g.color[k]) # ""

alphaProjectionExists(g, k) == g.checked[k] /\ strip(g.alpha[k]) # ""

\* lines 773-793: document layer i + 1 takes its color from active row
\* numLayers - i and its transparency from the alpha menu of the row before
RECURSIVE LayerElements(_, _, _)
LayerElements(g, act, i) ==
    LET numLayers == Len(act)
    IN IF i >= numLayers THEN [err |-> "ok", elems |-> <<>>]
       ELSE LET color == g.layerColor[act[numLayers - i]] - 1
                alphaSel == g.layerAlpha[act[numLayers - i - 1]]
                alpha == alphaSel - 1
                rest == LayerElements(g, act, i + 1)
            IN IF ~colorProjectionExists(g, color)
               THEN [err |-> "ConfigGenerationError", elems |-> <<>>]
               ELSE IF hasTransparency(numLayers, i) /\ alphaSel <= 1
               THEN [err |-> "ConfigGenerationError", elems |-> <<>>]
               ELSE IF hasTransparency(numLayers, i) /\ ~alphaProjectionExists(g, alpha)
               THEN [err |-> "ConfigGenerationError", elems |-> <<>>]
               ELSE [err |-> rest.err,
                     elems |-> <<[name |-> LayerNames[i + 1],
                                  colorProjectionName |-> projControls[color].color,
                                  transparencyProjectionName |->
                                      IF hasTransparency(numLayers, i)
                                      THEN projControls[alpha].alpha
                                      ELSE NoValue]>> \o rest.elems]

\* lines 749-807: the document, or the exception raised before anything is written
generateConfig(g) ==
    LET ls == LayerElements(g, activeLayerControls(g), 0)
        numbers == <<g.screenshotRes, g.convertedResWidth, g.convertedResHeight>>
    IN IF ls.err # "ok" THEN [err |-> ls.err, doc |-> <<>>]
       ELSE IF strip(g.padding) \notin DOMAIN FloatStr
               \/ \E k \in 1..Len(numbers) : strip(numbers[k]) \notin DOMAIN IntValue
       THEN [err |-> "ValueError", doc |-> <<>>]
       ELSE [err |-> "ok",
             doc |-> [projections |-> ProjectionElements(g, 1),
                      layers |-> ls.elems,
                      combinedImagePath |-> g.combined,
                      projectionPaddingPercentage |-> FloatStr[strip(g.padding)],
                      screenshotResolution |->
                          [width |-> IntStr[IntValue[strip(g.screenshotRes)]],
                           height |-> IntStr[IntValue[strip(g.screenshotRes)]]],
                      bakedTextureResolution |->
                          [width |-> IntStr[IntValue[strip(g.convertedResWidth)]],
                           height |-> IntStr[IntValue[strip(g.convertedResHeight)]]],
                      fillTextureSeams |-> IF g.fillTextureSeams THEN "True" ELSE "False"]]

\* lines 467-497.  The text of an element written with an empty string reads
\* back as None, and os.path.join(dir, None) raises TypeError.
parse_config(doc) ==
    IF doc.combinedImagePath = ""
    THEN [err |-> "TypeError", cfg |-> <<>>]
    ELSE [err |-> "ok",
          cfg |-> [projections |->
                       [k \in 1..Len(doc.projections) |->
                           [name |-> doc.projections[k].name,
                            direction |-> doc.projections[k].direction,
                            image_path |-> abs_path[doc.projections[k].imagePath]]],
                   layers |->
                       [k \in 1..Len(doc.layers) |->
                           [name |-> doc.layers[k].name,
                            color_proj_name |-> doc.layers[k].colorProjectionName,
                            transparency_proj_name |-> doc.layers[k].transparencyProjectionName]],
                   combined_image_path |-> abs_path[doc.combinedImagePath],
                   projection_padding |-> Hundredth[doc.projectionPaddingPercentage],
                   screenshot_res |-> IntValue[doc.screenshotResolution.width],
                   baked_texture_res |-> <<IntValue[doc.bakedTextureResolution.width],
                                           IntValue[doc.bakedTextureResolution.height]>>,
                   fill_texture_seams |-> doc.fillTextureSeams = "True"]]

\* the image path of the projection of that name and direction, relativized;
\* the empty text when there is none
LoadedPath(cfg, direction, name) ==
    LET found == {k \in 1..Len(cfg.projections) :
                     cfg.projections[k].direction = direction /\ cfg.projections[k].name = name}
    IN IF found = {} THEN ""
       ELSE relativizePath[cfg.projections[CHOOSE k \in found : TRUE].image_path]

\* lines 707-720: rows k and after of the projection grid.  Both fields of a
\* row are emptied first; a ValueError leaves the rows done so far as they are.
RECURSIVE LoadProjections(_, _, _)
LoadProjections(g, cfg, k) ==
    IF k > Len(projControls) THEN [err |-> "ok", gui |-> g]
    ELSE LET row == projControls[k]
             emptied == [g EXCEPT !.color[k] = "", !.alpha[k] = ""]
             colorPath == LoadedPath(cfg, row.direction, row.color)
             alphaPath == LoadedPath(cfg, row.direction, row.alpha)
         IN IF colorPath = "ValueError"
            THEN [err |-> "ValueError", gui |-> emptied]
            ELSE IF alphaPath = "ValueError"
            THEN [err |-> "ValueError", gui |-> [emptied EXCEPT !.color[k] = colorPath]]
            ELSE LoadProjections(
                    [emptied EXCEPT !.color[k] = colorPath, !.alpha[k] = alphaPath,
                                    !.checked[k] = (colorPath # "" \/ alphaPath # "")],
                    cfg, k + 1)

\* the menu item of the row whose projection has that name
MenuItem(name) ==
    1 + CHOOSE k \in 1..Len(projControls) :
            projControls[k].color = name \/ projControls[k].alpha = name

\* lines 701-744, on a document that generateConfig wrote
loadConfig(g, doc) ==
    LET parsed == parse_config(doc)
        cfg == parsed.cfg
        numLayers == Len(cfg.layers)
        rows == LoadProjections(g, cfg, 1)
        combined == relativizePath[cfg.combined_image_path]
        withLayers ==
            [rows.gui EXCEPT
                !.layerColor = [k \in 1..maxLayers |->
                    IF k <= numLayers THEN MenuItem(cfg.layers[numLayers - k + 1].color_proj_name)
                    ELSE 1],
                !.layerAlpha = [k \in 1..maxLayers |->
                    IF k < numLayers
                    THEN MenuItem(cfg.layers[numLayers - k].transparency_proj_name)
                    ELSE 1]]
    IN IF parsed.err # "ok" THEN [err |-> parsed.err, gui |-> g, cfg |-> <<>>]
       ELSE IF rows.err # "ok" THEN [err |-> rows.err, gui |-> rows.gui, cfg |-> cfg]
       ELSE IF combined = "ValueError" THEN [err |-> "ValueError", gui |-> withLayers, cfg |-> cfg]
       ELSE [err |-> "ok", cfg |-> cfg,
             gui |-> [withLayers EXCEPT
                         !.combined = combined,
                         !.padding = TimesHundred[cfg.projection_padding],
                         !.screenshotRes = IntStr[cfg.screenshot_res],
                         !.convertedResWidth = IntStr[cfg.baked_texture_res[1]],
                         !.convertedResHeight = IntStr[cfg.baked_texture_res[2]],
                         !.fillTextureSeams = cfg.fill_texture_seams]]

\* objects of the host scene that a target can name: two meshes, a shader
\* assigned to geoA and a shader assigned to nothing
ExistingObjects == {"geoA", "geoB", "shdA", "shdX"}

\* the object, whatever the targets and the output directory are
UncheckedP2T(g, fs) ==
    LET generated == generateConfig(g)
    IN IF generated.err # "ok" THEN [res |-> "None", files |-> fs]
       ELSE [res |-> "ok", files |-> writeFile(fs, ConfigPath, generated.doc),
             targets |-> getTargets(g), cfg |-> parse_config(generated.doc).cfg]

\* lines 814-837: the object the stage callbacks work with, or why there is
\* none: "None" after a dialog, else the exception that was raised.  files is
\* the file system afterwards.
makeP2T(g, fs) ==
    LET tgts == getTargets(g)
        generated == generateConfig(g)
        written == writeFile(fs, ConfigPath, generated.doc)
        parsed == parse_config(generated.doc)
    IN IF tgts = {}
          \/ (\E t \in tgts : t \notin ExistingObjects \/ get_target_geometry(t) = NoValue)
          \/ getOutputDirectory(g) = NoValue
          \/ generated.err = "ConfigGenerationError"
       THEN [res |-> "None", files |-> fs]
       ELSE IF generated.err # "ok" THEN [res |-> generated.err, files |-> fs]
       ELSE IF parsed.err # "ok" THEN [res |-> parsed.err, files |-> written]
       ELSE [res |-> "ok", files |-> written, targets |-> tgts, cfg |-> parsed.cfg]

\* the file chosen in 'Save Configuration As...'
SavePath == Path("saved.xml", "", "", 0)

\* lines 527-538.  loc.savePath is set when generateConfig was reached.
saveConfigMenuItem ==
    /\ pc \in {"idle", "done"}
    /\ gui.open
    /\ \E chosen \in BOOLEAN :
         IF getOutputDirectory(gui) = NoValue \/ ~chosen
         THEN /\ Returned("saveConfigMenuItem", "ok", EmptyFn)
              /\ UNCHANGED files
         ELSE LET generated == generateConfig(gui)
              IN /\ Returned("saveConfigMenuItem", generated.err, [savePath |-> SavePath])
                 /\ files' = IF generated.err = "ok"
                             THEN writeFile(writeFile(files, ConfigPath, generated.doc),
                                            SavePath, generated.doc)
                             ELSE files
    /\ UNCHANGED <<cfgVars, worldBox, unit, nodes, conns, ui>>

\* lines 515-525: the chosen file replaces config.xml, which is removed first,
\* and is loaded.  loc.cfg is the configuration that loadConfig parsed.
loadConfigMenuItem ==
    /\ pc \in {"idle", "done"}
    /\ gui.open
    /\ \E chosen \in BOOLEAN, path \in DOMAIN files \cup {ConfigPath} :
         IF getOutputDirectory(gui) = NoValue \/ ~chosen \/ ~fileExists(files, path)
         THEN /\ Returned("loadConfigMenuItem", "ok", EmptyFn)
              /\ UNCHANGED <<files, gui>>
         ELSE LET removed == removeFile(files, ConfigPath)
                  copied == writeFile(removed, ConfigPath, files[path])
                  loaded == loadConfig(gui, files[path])
              IN IF ~fileExists(removed, path)
                 THEN /\ Returned("loadConfigMenuItem", "FileNotFoundError", [path |-> path])
                      /\ files' = removed
                      /\ UNCHANGED gui
                 ELSE /\ files' = copied
                      /\ gui' = loaded.gui
                      /\ Returned("loadConfigMenuItem", loaded.err,
                                  [cfg |-> loaded.cfg, path |-> path])
    /\ UNCHANGED <<projections, layers, targets, projection_padding, history,
                   worldBox, unit, nodes, conns, ui>>

\* lines 590-606: the chosen directory becomes the output directory, its
\* config.xml is loaded if there is one, and the buttons are enabled
browseOutputDir ==
    /\ pc \in {"idle", "done"}
    /\ gui.open
    /\ \E path \in {NoValue, OutputDirectory, "C:\\gone"} :
         IF path # OutputDirectory
         THEN /\ Returned("browseOutputDir", "ok", EmptyFn)
              /\ UNCHANGED gui
         ELSE LET browsed == [gui EXCEPT !.outdir = OutputDirectory]
                  loaded == loadConfig(browsed, files[ConfigPath])
              IN IF ~fileExists(files, ConfigPath)
                 THEN /\ gui' = [browsed EXCEPT !.enabled = TRUE]
                      /\ Returned("browseOutputDir", "ok", EmptyFn)
                 ELSE IF loaded.err # "ok"
                 THEN /\ gui' = loaded.gui
                      /\ Returned("browseOutputDir", loaded.err, [cfg |-> loaded.cfg])
                 ELSE /\ gui' = [loaded.gui EXCEPT !.enabled = TRUE]
                      /\ Returned("browseOutputDir", "ok", [cfg |-> loaded.cfg])
    /\ UNCHANGED <<projections, layers, targets, projection_padding, history,
                   worldBox, unit, nodes, conns, ui, files>>

NextConfig ==
    \/ saveConfigMenuItem
    \/ loadConfigMenuItem
    \/ browseOutputDir

\* the window after the user edited it: the projection rows, the layer menus,
\* the number and name fields, or the targets and the output directory
UiStates ==
    {[DefaultUi EXCEPT !.checked[1] = c, !.color[1] = p, !.checked[3] = d, !.alpha[3] = a] :
        c \in BOOLEAN, d \in BOOLEAN,
        p \in {"front.png", " front.png ", ".\\front.png", "C:\\art\\front.png",
               "D:\\tex\\front.png", "", "  "},
        a \in {"sideAlpha.png", ""}}
    \cup {[DefaultUi EXCEPT !.layerColor = <<c1, c2, c3, 1>>, !.layerAlpha = <<a1, a2, a3, 1>>] :
        c1 \in {1, 2, 3, 5}, c2 \in {1, 2, 3, 5}, c3 \in {1, 2, 3, 5},
        a1 \in {1, 3, 4, 5}, a2 \in {1, 3, 4, 5}, a3 \in {1, 3, 4, 5}}
    \cup {[DefaultUi EXCEPT !.padding = p, !.screenshotRes = s, !.convertedResWidth = w,
                            !.combined = n, !.fillTextureSeams = f] :
        p \in {"10", " 10 ", "10.0", "7", "7.000000000000001", "abc", ""},
        s \in {"512", "0512", "512.0"}, w \in {"512", " 512 ", "256", ""},
        n \in {"combined.png", ""}, f \in BOOLEAN}
    \cup {[DefaultUi EXCEPT !.targets = t, !.outdir = o] :
        t \in {<<"">>, <<"geoA">>, <<" geoA", "shdA ">>, <<"geoA", "">>, <<"ghost">>,
               <<"shdX">>, <<"shdA", "geoB">>},
        o \in {OutputDirectory, "C:\\gone", ""}}

\* an empty scene and output directory, and no Proj2Tex object yet
InitConfig ==
    /\ projections = <<>>
    /\ layers = <<>>
    /\ targets = {}
    /\ projection_padding = 10
    /\ worldBox = SceneBox
    /\ unit = "cm"
    /\ HostInit
    /\ call = "none"
    /\ pc = "idle"
    /\ err = "ok"
    /\ loc = EmptyFn
    /\ trace = <<>>
    /\ before = [nodes |-> EmptyFn, conns |-> {}, ui |-> {}, files |-> EmptyFn]
    /\ gui \in UiStates
    /\ history = <<>>

SpecConfig == InitConfig /\ [][NextConfig]_vars

-----------------------------------------------------------------------------
(* The stage buttons *)

MaxClicks == 2

\* the method each button runs on the object that makeP2T returns
Buttons == {STAGES[k] : k \in 1..Len(STAGES)} \cup {"clear_nodes"}

\* the padding of the object, in percent
Percent == ("0.1" :> 10) @@ ("0.07" :> 7)

\* lines 839-872, up to the return of makeP2T: without an object (a dialog was
\* shown or makeP2T raised) the callback is over; with one, the object stands
\* for the stage method to run on
PressButton ==
    /\ gui.open /\ gui.enabled
    /\ pc = "done" \/ (pc = "idle" /\ call = "none")
    /\ Len(history) < MaxClicks
    /\ \E button \in Buttons :
         LET made == makeP2T(gui, files)
         IN /\ history' = Append(history, button)
            /\ files' = made.files
            /\ call' = "makeP2T"
            /\ err' = made.res
            /\ trace' = <<>>
            /\ before' = Snapshot
            /\ IF made.res = "ok"
               THEN /\ pc' = "idle"
                    /\ loc' = [button |-> button]
                    /\ projections' = made.cfg.projections
                    /\ layers' = made.cfg.layers
                    /\ targets' = made.targets
                    /\ projection_padding' = Percent[made.cfg.projection_padding]
               ELSE /\ pc' = "done"
                    /\ loc' = EmptyFn
                    /\ UNCHANGED <<projections, layers, targets, projection_padding>>
    /\ UNCHANGED <<gui, worldBox, unit, nodes, conns, ui>>

\* lines 839-872, after makeP2T returned an object: the stage method of the
\* button that was pressed
stageCallback ==
    /\ call = "makeP2T" /\ pc = "idle"
    /\ \/ loc.button = "make_projections" /\ MakeProjectionsCall
       \/ loc.button = "save_screenshots" /\ ShotsCall
       \/ loc.button = "make_layered_shader" /\ MakeLayeredShaderCall
       \/ loc.button = "convert" /\ ConvertCall
       \/ loc.button = "combine" /\ CombineCall
       \/ loc.button = "apply_to_shaders" /\ ApplyToShadersCall
       \/ loc.button = "clear_nodes" /\ ClearNodesCall

NextGui ==
    \/ PressButton
    \/ stageCallback
    \/ ShotsWindow
    \/ ShotsCapture
    \/ ShotsCrop
    \/ ShotsRemove
    \/ ShotsFinally
    \/ CombineGeom
    \/ CombineLayer
    \/ CombineCopy
    \/ CombineFinally

\* the window with its targets and output directory edited, or with one layer
\* menu, number field or name edited
ButtonUiStates ==
    {[DefaultUi EXCEPT !.targets = t, !.outdir = o] :
        t \in {<<"">>, <<"geoA">>, <<" geoA", "", "shdA ">>, <<"ghost">>, <<"geoA", "shdX">>},
        o \in {OutputDirectory, "C:\\gone", ""}}
    \cup {[DefaultUi EXCEPT !.layerColor[1] = c, !.layerAlpha[1] = a, !.padding = p,
                            !.convertedResHeight = h, !.combined = n] :
        c \in {2, 5}, a \in {4, 1}, p \in {"10", "abc"}, h \in {"512", "512.0"},
        n \in {"combined.png", ""}}
    \cup {[DefaultUi EXCEPT !.layerColor = <<1, 1, 1, 1>>]}

\* what an earlier session with the default window left: its config.xml and
\* the nodes of make_projections
EarlierSession ==
    LET doc == generateConfig(DefaultUi).doc
        cfg == parse_config(doc).cfg
    IN [files |-> (ConfigPath :> doc),
        sc |-> make_projections([nodes |-> EmptyFn, conns |-> {}], cfg.projections,
                                cfg.layers, {"geoA"}, SceneBox, 10, "cm").sc]

\* the window on a fresh scene and output directory, or on those of an
\* earlier session
InitGui ==
    /\ projections = <<>>
    /\ layers = <<>>
    /\ targets = {}
    /\ projection_padding = 10
    /\ worldBox = SceneBox
    /\ unit = "cm"
    /\ \/ HostInit
       \/ /\ nodes = EarlierSession.sc.nodes
          /\ conns = EarlierSession.sc.conns
          /\ ui = {}
          /\ files = EarlierSession.files
    /\ call = "none"
    /\ pc = "idle"
    /\ err = "ok"
    /\ loc = EmptyFn
    /\ trace = <<>>
    /\ before = [nodes |-> EmptyFn, conns |-> {}, ui |-> {}, files |-> EmptyFn]
    /\ gui \in ButtonUiStates
    /\ history = <<>>

SpecGui == InitGui /\ [][NextGui]_vars

-----------------------------------------------------------------------------
(* Edits of the window between stage buttons *)

\* Windows the user moves between: the defaults, another target, the second
\* layer removed, and the side projection unchecked as well.
EditUiStates ==
    {DefaultUi,
     [DefaultUi EXCEPT !.targets = <<"geoB">>],
     [DefaultUi EXCEPT !.layerColor = <<2, 1, 1, 1>>],
     [DefaultUi EXCEPT !.layerColor = <<2, 1, 1, 1>>, !.checked[3] = FALSE]}

\* The user changes widgets while no callback is running.
editWindow ==
    /\ gui.open
    /\ pc = "done" \/ (pc = "idle" /\ call = "none")
    /\ gui' \in EditUiStates \ {gui}
    /\ UNCHANGED <<projections, layers, targets, projection_padding, history,
                   worldBox, unit, nodes, conns, ui, files, call, pc, err, loc,
                   trace, before>>

NextEdit == NextGui \/ editWindow

InitEdit ==
    /\ projections = <<>>
    /\ layers = <<>>
    /\ targets = {}
    /\ projection_padding = 10
    /\ worldBox = SceneBox
    /\ unit = "cm"
    /\ HostInit
    /\ call = "none"
    /\ pc = "idle"
    /\ err = "ok"
    /\ loc = EmptyFn
    /\ trace = <<>>
    /\ before = [nodes |-> EmptyFn, conns |-> {}, ui |-> {}, files |-> EmptyFn]
    /\ gui \in EditUiStates
    /\ history = <<>>

SpecEdit == InitEdit /\ [][NextEdit]_vars

-----------------------------------------------------------------------------
(* Properties of combine *)

ProjectionNamed(name) == CHOOSE q \in Range(projections) : q.name = name

\* the baked image of the projection of that name, as convert left it
BakedOf(name, geom) ==
    Content(before.files, baked_image_path(ProjectionNamed(name), geom))

\* the accumulator after the layers i, i-1, ..., 1 (1 is the topmost layer)
RECURSIVE FoldLayers(_, _, _)
FoldLayers(geom, i, acc) ==
    IF i < 1 THEN acc
    ELSE FoldLayers(geom, i - 1,
            IF layers[i].transparency_proj_name = NoValue
            THEN BakedOf(layers[i].color_proj_name, geom)
            ELSE composite(BakedOf(layers[i].color_proj_name, geom), acc,
                           BakedOf(layers[i].transparency_proj_name, geom)))

Combined == call = "combine" /\ pc = "done" /\ err = "ok"

\* C1: when combine returns, the combined image of every target geometry is
\* the fold over the layers from the base upwards: start with the baked color
\* image of the last layer; a layer without transparency source replaces the
\* accumulator by its baked color image, any other layer makes it
\* composite(top = its color image, bottom = accumulator, mask = its
\* transparency image).
C1_CombinedImageIsFold ==
    Combined =>
        \A geom \in _get_all_target_geometry(targets) :
            /\ fileExists(files, _combined_image_path(geom))
            /\ files[_combined_image_path(geom)]
                 = FoldLayers(geom, Len(layers) - 1,
                              BakedOf(layers[Len(layers)].color_proj_name, geom))

\* C1 witness: three layers, the upper two composited with a mask over
\* different colors, for two geometries
C1_Witness ==
    /\ Combined
    /\ Len(layers) = 3
    /\ layers[1].transparency_proj_name # NoValue
    /\ layers[2].transparency_proj_name # NoValue
    /\ layers[1].color_proj_name # layers[2].color_proj_name
    /\ layers[2].color_proj_name # layers[3].color_proj_name
    /\ Cardinality(_get_all_target_geometry(targets)) = 2

\* C3: when combine raises 'no projection exists with name', no composite
\* process has been invoked and no temporary or combined image has been
\* written, wherever the offending layer stands in the list.
C3_LookupFailsBeforeCompositing ==
    (call = "combine" /\ err = "NoProjection") =>
        /\ \A k \in 1..Len(trace) : trace[k].op \notin {"composite", "copy"}
        /\ pc = "finally" => files = before.files

Resolves(name) == \E k \in 1..Len(projections) : projections[k].name = name

Dangling ==
    \E k \in 1..Len(layers) :
        \/ ~Resolves(layers[k].color_proj_name)
        \/ /\ layers[k].transparency_proj_name # NoValue
           /\ ~Resolves(layers[k].transparency_proj_name)

\* C4: make_layered_shader and combine, run on a configuration in which some
\* layer (the base layer included) names a color projection, or a non-null
\* transparency projection, that matches no projection, end in an error.
C4_DanglingReferenceIsFatal ==
    (call \in {"combine", "make_layered_shader"} /\ pc = "done" /\ Dangling) => err # "ok"

\* C5: when combine has ended, by return or raise, and every os.remove it
\* attempted succeeded, no temporary image that one of its composite
\* invocations wrote is left.
C5_TemporaryImagesDeleted ==
    (call = "combine" /\ pc = "done" /\ loc.kept = {}) =>
        \A k \in 1..Len(trace) :
            (trace[k].op = "composite" /\ trace[k].res \in {"ok", "failedWithOutput"})
                => ~fileExists(files, trace[k].path)

-----------------------------------------------------------------------------
(* Properties of the bounding box and of the projector placement *)

Center(b) == <<Half(b.xmin + b.xmax), Half(b.ymin + b.ymax), Half(b.zmin + b.zmax)>>

HalfExtent(b) == <<Half(b.xmax - b.xmin), Half(b.ymax - b.ymin), Half(b.zmax - b.zmin)>>

\* pad is fraction pct/100 of the length of b's diagonal, rounded down
IsFractionOfDiagonal(pad, b, pct) ==
    LET sq == Square(b.xmax - b.xmin) + Square(b.ymax - b.ymin) + Square(b.zmax - b.zmin)
    IN \E d \in 0..sq :
          /\ d * d <= sq /\ sq < (d + 1) * (d + 1)
          /\ 100 * pad <= pct * d /\ pct * d < 100 * (pad + 1)

\* C8: compute_bbox returns the box whose min is B's min minus padding and whose
\* max is B's max plus padding on every axis, with the one value
\* padding = p * diagonal_length(B); the center is unchanged and every extent
\* grows by exactly 2 * padding.
C8_UniformPadding ==
    (call = "compute_bbox" /\ pc = "done") =>
        LET B == worldBox
            R == loc.bbox
            pad == R.xmax - B.xmax
        IN /\ IsFractionOfDiagonal(pad, B, projection_padding)
           /\ R.xmin = B.xmin - pad /\ R.xmax = B.xmax + pad
           /\ R.ymin = B.ymin - pad /\ R.ymax = B.ymax + pad
           /\ R.zmin = B.zmin - pad /\ R.zmax = B.zmax + pad
           /\ Center(R) = Center(B)
           /\ \A i \in 1..3 : HalfExtent(R)[i] + HalfExtent(R)[i]
                                = HalfExtent(B)[i] + HalfExtent(B)[i] + pad + pad

\* C8 witness: a padded box of a non-cubic, off-origin box with positive padding
C8_Witness ==
    /\ call = "compute_bbox" /\ pc = "done"
    /\ loc.bbox.xmax - worldBox.xmax > 0
    /\ projection_padding > 0
    /\ worldBox.xmax - worldBox.xmin # worldBox.ymax - worldBox.ymin
    /\ worldBox.ymax - worldBox.ymin # worldBox.zmax - worldBox.zmin
    /\ Center(worldBox) # Zero3

\* the table of section 4.1: offset axis and sign, rotation in degrees, and
\* the two box axes that give the gate's in-plane half-extents
PlacementTable ==
    [front  |-> [axis |-> 3, sign |-> 1,  rot |-> <<0, 0, 0>>,   plane |-> <<1, 2>>],
     back   |-> [axis |-> 3, sign |-> -1, rot |-> <<0, 180, 0>>, plane |-> <<1, 2>>],
     side   |-> [axis |-> 1, sign |-> 1,  rot |-> <<0, 90, 0>>,  plane |-> <<3, 2>>],
     top    |-> [axis |-> 2, sign |-> 1,  rot |-> <<-90, 0, 0>>, plane |-> <<1, 3>>],
     bottom |-> [axis |-> 2, sign |-> -1, rot |-> <<90, 0, 0>>,  plane |-> <<1, 3>>]]

\* s is the length e, given in unit u, expressed in centimetres (rounded down)
IsInCm(s, e, u) == s * UnitDen[u] <= e * UnitNum[u] /\ e * UnitNum[u] < (s + 1) * UnitDen[u]

GateAt(proj, bb) ==
    LET a == nodes[place3dTexture(proj)]
        row == PlacementTable[proj.direction]
        c == Center(bb)
        e == HalfExtent(bb)
    IN /\ \A i \in 1..3 :
             a.t[i] = IF i = row.axis THEN c[i] + row.sign * e[i] ELSE c[i]
       /\ \A i \in 1..3 : a.r[i] = Fx(row.rot[i])
       /\ a.s[3] = Fx(1)

MadeProjections == call = "make_projections" /\ pc = "done" /\ err = "ok"

\* C9 as stated: every gate sits on its face of the padded box with the
\* rotation of its direction, and its in-plane scale is the pair of
\* half-extents of the table (front and back: (extX, extY)), Z scale 1.
C9_ScaleIsHalfExtent ==
    MadeProjections =>
        \A k \in 1..Len(projections) :
            LET proj == projections[k]
                a == nodes[place3dTexture(proj)]
                e == HalfExtent(loc.bbox)
                row == PlacementTable[proj.direction]
            IN /\ GateAt(proj, loc.bbox)
               /\ a.s[1] = e[row.plane[1]]
               /\ a.s[2] = e[row.plane[2]]

\* C9 amended: position, rotation and Z scale as stated; the in-plane scale
\* is the pair of half-extents of the table converted from the scene's linear
\* unit to centimetres (so front and back get the same scale, and the scale
\* equals the half-extents as numbers when the unit is the centimetre).
C9_ScaleIsHalfExtentInCm ==
    MadeProjections =>
        \A k \in 1..Len(projections) :
            LET proj == projections[k]
                a == nodes[place3dTexture(proj)]
                e == HalfExtent(loc.bbox)
                row == PlacementTable[proj.direction]
            IN /\ GateAt(proj, loc.bbox)
               /\ IsInCm(a.s[1], e[row.plane[1]], unit)
               /\ IsInCm(a.s[2], e[row.plane[2]], unit)
               /\ (unit = "cm" => a.s[1] = e[row.plane[1]] /\ a.s[2] = e[row.plane[2]])
               /\ \A j \in 1..Len(projections) :
                     {proj.direction, projections[j].direction}
                         = {DIRECTION_FRONT, DIRECTION_BACK}
                     => /\ nodes[place3dTexture(projections[j])].s = a.s
                        /\ row.plane = PlacementTable[projections[j].direction].plane

\* C9 witness: all five gates placed around a box with three different
\* positive half-extents, in a scene measured in metres
C9_Witness ==
    /\ MadeProjections
    /\ unit = "m"
    /\ {projections[k].direction : k \in 1..Len(projections)} = VALID_DIRECTIONS
    /\ LET e == HalfExtent(loc.bbox)
       IN e[1] > 0 /\ e[1] # e[2] /\ e[2] # e[3] /\ e[1] # e[3]
    /\ Center(loc.bbox) # Zero3

\* C2: when make_projections or save_screenshots raises the 'unrecognized
\* projection direction' error, the host is as it was when the call began: no
\* scene node, camera or window created or deleted, no file written.
C2_DirectionErrorBeforeMutation ==
    (call \in {"make_projections", "save_screenshots"} /\ err = "UnrecognizedDirection") =>
        /\ nodes = before.nodes
        /\ conns = before.conns
        /\ ui = before.ui
        /\ files = before.files

-----------------------------------------------------------------------------
(* Properties of the external tool's failures and of the screenshots *)

FailedRuns ==
    {k \in 1..Len(trace) : trace[k].op \in {"composite", "crop"} /\ trace[k].res # "ok"}

\* C6: once a composite (combine) or a crop (save_screenshots) has exited
\* non-zero, the stage is on its way out with an error: no composite, crop,
\* copy or capture follows, no combined image exists for the geometry being
\* processed or a later one, and no later projection has been captured.
C6_NonZeroExitAbortsStage ==
    \A k \in FailedRuns :
        /\ pc \in {"finally", "done"}
        /\ err = "CalledProcessError"
        /\ \A m \in (k + 1)..Len(trace) :
              trace[m].op \notin {"composite", "crop", "copy", "playblast"}
        /\ call = "combine" =>
              \A j \in loc.g..Len(loc.geoms) :
                  ~fileExists(files, _combined_image_path(loc.geoms[j]))
        /\ call = "save_screenshots" =>
              \A j \in (loc.k + 1)..Len(projections) :
                  /\ ~fileExists(files, TmpScreenshotPath(projections[j]))
                  /\ ~fileExists(files, ImagePath(projections[j]))

\* C6 witness: the second composite of the first of two geometries failed
C6_Witness ==
    /\ call = "combine" /\ pc = "done" /\ err = "CalledProcessError"
    /\ Len(trace) = 2
    /\ FailedRuns = {2}
    /\ Len(loc.geoms) = 2 /\ loc.g = 1

\* C6 witness for the other stage: the crop of the first of two projections failed
C6_WitnessCrop ==
    /\ call = "save_screenshots" /\ pc = "done" /\ err = "CalledProcessError"
    /\ FailedRuns # {}
    /\ Len(projections) = 2 /\ loc.k = 1

\* C7: when save_screenshots has ended, the temporary screenshot of every
\* captured projection is gone, unless its os.remove was tried and failed.
C7_TemporaryScreenshotsRemoved ==
    (call = "save_screenshots" /\ pc = "done") =>
        \A k \in 1..Len(trace) :
            trace[k].op = "playblast" =>
                \/ ~fileExists(files, trace[k].path)
                \/ trace[k].path \in loc.kept

BoxMin(b) == <<b.xmin, b.ymin, b.zmin>>

BoxMax(b) == <<b.xmax, b.ymax, b.zmax>>

\* C10: the crop corners handed to the world-to-viewport conversion lie on
\* the box's middle plane along the direction's offset axis and are
\* diagonally opposite on the two in-plane axes: one has the box minimum and
\* the other the maximum (front: (xmin,ymin,midZ) and (xmax,ymax,midZ)).
C10_CropCornersOpposite ==
    (call = "save_screenshots" /\ Len(loc.corners.pts) > 0) =>
        LET row == PlacementTable[loc.corners.direction]
            pts == loc.corners.pts
            lo == BoxMin(loc.bbox)
            hi == BoxMax(loc.bbox)
        IN /\ \A n \in 1..Len(pts) :
                 /\ pts[n][row.axis] = Center(loc.bbox)[row.axis]
                 /\ \A i \in 1..3 \ {row.axis} : pts[n][i] \in {lo[i], hi[i]}
           /\ Len(pts) = 2 =>
                 \A i \in 1..3 \ {row.axis} : {pts[1][i], pts[2][i]} = {lo[i], hi[i]}
           /\ (loc.corners.direction = DIRECTION_FRONT /\ Len(pts) = 2) =>
                 /\ pts[1] = <<lo[1], lo[2], Center(loc.bbox)[3]>>
                 /\ pts[2] = <<hi[1], hi[2], Center(loc.bbox)[3]>>

\* C10 witness: both corners of a side view of a box with three positive,
\* different extents were converted and the screenshot was cropped
C10_Witness ==
    /\ call = "save_screenshots" /\ pc = "remove"
    /\ loc.corners.direction = DIRECTION_SIDE
    /\ Len(loc.corners.pts) = 2
    /\ LET e == HalfExtent(loc.bbox)
       IN e[1] > 0 /\ e[2] > 0 /\ e[3] > 0 /\ e[1] # e[2] /\ e[2] # e[3]
    /\ Center(loc.bbox) # Zero3

-----------------------------------------------------------------------------
(* Pixels of the combined image *)

\* a two-layer list [B, A]: A the base without transparency source, B masked
MaskedOverBase ==
    /\ Combined
    /\ Len(layers) = 2
    /\ layers[2].transparency_proj_name = NoValue
    /\ layers[1].transparency_proj_name # NoValue

PixelsOf(name) == BakedPixels[ProjectionNamed(name).image_path]

CombinedPixels(geom) == Render(files[_combined_image_path(geom)]).px

\* C12 as stated: for [B, A] with base color image R, top color image G and
\* mask M, the combined image is G where M is white and R where M is black.
C12_TopWhereMaskWhite ==
    MaskedOverBase =>
        \A geom \in _get_all_target_geometry(targets) :
            LET G == PixelsOf(layers[1].color_proj_name)
                M == PixelsOf(layers[1].transparency_proj_name)
                R == PixelsOf(layers[2].color_proj_name)
                out == CombinedPixels(geom)
            IN \A x \in 1..Len(out) :
                  /\ M[x] = "white" => out[x] = G[x]
                  /\ M[x] = "black" => out[x] = R[x]

\* C12 amended: the mask is the top layer's transparency: the combined image
\* is R (the base) where M is white and G (the top layer) where M is black.
C12_BaseWhereMaskWhite ==
    MaskedOverBase =>
        \A geom \in _get_all_target_geometry(targets) :
            LET G == PixelsOf(layers[1].color_proj_name)
                M == PixelsOf(layers[1].transparency_proj_name)
                R == PixelsOf(layers[2].color_proj_name)
                out == CombinedPixels(geom)
            IN \A x \in 1..Len(out) :
                  /\ M[x] = "white" => out[x] = R[x]
                  /\ M[x] = "black" => out[x] = G[x]

\* C12 witness: base red, top green, right half of the mask white: the
\* combined image is green on the left and red on the right
C12_Witness ==
    /\ MaskedOverBase
    /\ PixelsOf(layers[2].color_proj_name) = <<"red", "red">>
    /\ PixelsOf(layers[1].color_proj_name) = <<"green", "green">>
    /\ PixelsOf(layers[1].transparency_proj_name) = <<"black", "white">>
    /\ CombinedPixels("geoA") = <<"green", "red">>

-----------------------------------------------------------------------------
(* External processes of a stage *)

InToolStage == call \in {"combine", "save_screenshots"}

Starts(log, n) == {k \in 1..Len(log) : log[k].ev = "start" /\ log[k].step = n}

\* every process started has exited before anything else is started
OneAtATime(log) ==
    /\ \A k \in 1..Len(log) :
          log[k].ev = "start" =>
              k < Len(log) /\ log[k + 1] = [log[k] EXCEPT !.ev = "exit"]
    /\ \A k \in 1..Len(log) :
          log[k].ev = "exit" =>
              k > 1 /\ log[k - 1] = [log[k] EXCEPT !.ev = "start"]

\* C14 as stated: each composite step and each crop step launches exactly one
\* external process, which has run to completion before the next step
\* starts; no two external processes are alive at the same time.
C14_OneProcessPerStep ==
    InToolStage =>
        /\ OneAtATime(loc.procs)
        /\ \A n \in {loc.procs[k].step : k \in 1..Len(loc.procs)} :
              Cardinality(Starts(loc.procs, n)) = 1

\* C14 amended: each composite step and each crop step launches exactly one
\* composite or crop process, preceded by at most one run of the tool without
\* arguments that locates it (none when the copy next to the script is
\* used); each process has exited before the next is started.
C14_OneToolRunPerStep ==
    InToolStage =>
        LET log == loc.procs
            kind == IF call = "combine" THEN "composite" ELSE "crop"
        IN /\ OneAtATime(log)
           /\ {log[k].step : k \in 1..Len(log)} = 1..ToolRuns(log)
           /\ \A n \in 1..ToolRuns(log) :
                 /\ Cardinality({k \in Starts(log, n) : log[k].kind = kind}) = 1
                 /\ Cardinality({k \in Starts(log, n) : log[k].kind = "probe"}) <= 1
                 /\ \A k \in Starts(log, n) : log[k].kind \in {kind, "probe"}
                 /\ \A j, k \in Starts(log, n) :
                       (log[j].kind = "probe" /\ log[k].kind = kind) => j < k
           /\ ToolRuns(log)
                 = Cardinality({k \in 1..Len(trace) : trace[k].op = kind})

\* C14 witness: combine ran two composite steps with a tool it located by
\* running it
C14_Witness ==
    /\ call = "combine" /\ pc = "done" /\ err = "ok"
    /\ ToolRuns(loc.procs) = 2
    /\ Len(loc.procs) = 8

-----------------------------------------------------------------------------
(* Cleanup of the screenshot camera and window *)

\* C15: when save_screenshots has ended, by return or by an error raised
\* after the camera was created, the screenshot camera, the screenshot
\* window and its model editor do not exist.
C15_CameraAndWindowRemoved ==
    (call = "save_screenshots" /\ pc = "done") =>
        /\ ~objExists(Scene, loc.scr_cam)
        /\ ScreenshotWindow \notin ui
        /\ ModelEditor \notin ui

-----------------------------------------------------------------------------
(* One combined image per geometry *)

ResolvedGeometry == {get_target_geometry(t) : t \in targets}

CopiesOf(geom) ==
    {k \in 1..Len(trace) :
        trace[k].op = "copy" /\ trace[k].path = _combined_image_path(geom)}

Copies == {k \in 1..Len(trace) : trace[k].op = "copy"}

ShaderOf(target) ==
    IF is_target_shader(target) THEN UserNode(target)
    ELSE _shader(get_target_geometry(target))

Applied == call = "apply_to_shaders" /\ pc = "done"

FileNodes == {nm \in DOMAIN nodes : nm.prefix = "_file"}

\* C13: combine walks the layers and writes a combined image exactly once per
\* distinct geometry the targets resolve to, at '<combined>_<geom>.<fmt>';
\* apply_to_shaders then creates one file node per geometry that reads this
\* image, and the colour of every target's shader is fed by the file node of
\* the target's geometry.
C13_OneImagePerGeometry ==
    /\ Combined =>
          /\ Len(loc.geoms) = Cardinality(ResolvedGeometry)
          /\ Cardinality(Copies) = Cardinality(ResolvedGeometry)
          /\ \A geom \in ResolvedGeometry : Cardinality(CopiesOf(geom)) = 1
    /\ Applied =>
          /\ Cardinality(FileNodes) = Cardinality(ResolvedGeometry)
          /\ \A geom \in ResolvedGeometry :
                /\ _shader_file(geom) \in DOMAIN nodes
                /\ nodes[_shader_file(geom)].tex = CombinedImageText[geom]
                /\ fileExists(files, _combined_image_path(geom))
          /\ \A t \in targets :
                {c.src : c \in {d \in conns : d.dst = ShaderOf(t) /\ d.in = "color"}}
                    = {_shader_file(get_target_geometry(t))}

C13_Witness ==
    /\ Applied
    /\ targets = {"shdA", "geoA"}
    /\ Len(layers) = 3

-----------------------------------------------------------------------------
(* make_projections on a scene left by earlier stages *)

\* C19: when make_projections completes on a scene left by earlier stages of
\* the same configuration and targets, the script-named nodes of the scene are
\* exactly those it makes on an empty scene: one place3dTexture and one
\* projection node per configured projection with the placement just computed,
\* and no layer material, layered shader, projection file node,
\* '<geom>_shader' or '<geom>_file' node.
C19_MakeProjectionsIdempotent ==
    MadeProjections =>
        /\ DOMAIN nodes = DOMAIN PlacedScene.nodes
        /\ \A nm \in DOMAIN nodes \cap DOMAIN PlacedScene.nodes :
              nodes[nm] = PlacedScene.nodes[nm]

-----------------------------------------------------------------------------
(* Nodes left by the six stages run in order *)

\* the number of stages that have returned without error
Completed == Len(history) + (IF pc = "done" /\ err = "ok" THEN 1 ELSE 0)

LayeredShaderNodes == {nm \in DOMAIN nodes : nm.prefix \in {"layerMat_", "layered_shader"}}

ProjectionNodes == {nm \in DOMAIN nodes : nm.prefix \in {"place3dTex_", "proj_", "projFile_"}}

MeshGeometry == {t \in targets : ~is_target_shader(t)}

\* C20: when stages 1 to 6 run in order without error, no layer material and
\* no layered shader exists from the return of convert (stage 4) on, and after
\* apply_to_shaders (stage 6) the nodes the script named are exactly
\* '<geom>_file' for every geometry and '<geom>_shader' for every geometry
\* that had a mesh target: no place3dTexture, projection or projection file
\* node is left.
C20_NodesLeftByPipeline ==
    /\ Completed >= 4 => LayeredShaderNodes = {}
    /\ Completed = 6 =>
          /\ ProjectionNodes = {}
          /\ DOMAIN nodes = {_shader_file(g) : g \in ResolvedGeometry}
                               \cup {_shader(g) : g \in MeshGeometry}

C20_Witness ==
    /\ Completed = 6
    /\ history = SubSeq(STAGES, 1, 5)
    /\ targets = {"shdA", "geoB"}
    /\ Len(layers) = 2

-----------------------------------------------------------------------------
(* Round trip of the configuration through the document and the window *)

\* os.path.normpath (ntpath) on the paths that are not normal already
NormPath ==
    ("C:\\out\\..\\art\\front.png" :> "C:\\art\\front.png")
        @@ ("C:\\out\\.\\front.png" :> "C:\\out\\front.png")

normpath(p) == IF p \in DOMAIN NormPath THEN NormPath[p] ELSE p

\* the configuration with every path in normal form
Normalized(cfg) ==
    [cfg EXCEPT !.projections =
                    [k \in 1..Len(cfg.projections) |->
                        [cfg.projections[k] EXCEPT !.image_path = normpath(@)]],
                !.combined_image_path = normpath(@)]

\* loadConfig ran on a document that parse_config accepts
LoadAttempted ==
    /\ call \in {"loadConfigMenuItem", "browseOutputDir"}
    /\ pc = "done"
    /\ "cfg" \in DOMAIN loc
    /\ err # "TypeError"

\* C11: a document written by generateConfig parses to a model M; after
\* loadConfig has put that document into the window, generateConfig accepts
\* the window again and the document it writes parses to a model equal to M:
\* same projections (names, directions, image paths naming the same files),
\* same layers in the same order with the same references, same combined
\* image path, padding, resolutions and fill-seams flag.
C11_ConfigRoundTrip ==
    LoadAttempted =>
        /\ err = "ok"
        /\ generateConfig(gui).err = "ok"
        /\ parse_config(generateConfig(gui).doc).err = "ok"
        /\ Normalized(parse_config(generateConfig(gui).doc).cfg) = Normalized(loc.cfg)

-----------------------------------------------------------------------------
(* Layers and references of the documents that generateConfig writes *)

\* the documents in the file system
Documents == {files[p] : p \in DOMAIN files \cap {ConfigPath, SavePath}}

\* generateConfig ran in the last action
Generated == call = "saveConfigMenuItem" /\ pc = "done" /\ DOMAIN loc = {"savePath"}

Rejected == err = "ConfigGenerationError" /\ files = before.files

ActiveRows == {k \in 1..maxLayers : gui.layerColor[k] > 1}

LastActiveRow == CHOOSE k \in ActiveRows : \A j \in ActiveRows : j <= k

\* C16: in every document that generateConfig writes the last layer has no
\* transparency source and every other layer has one; a window in which an
\* active layer row other than the last has no alpha selected is rejected
\* with ConfigGenerationError and nothing is written.
C16_OnlyBaseLayerOpaque ==
    /\ \A doc \in Documents : \A k \in 1..Len(doc.layers) :
          (doc.layers[k].transparencyProjectionName = NoValue) <=> (k = Len(doc.layers))
    /\ (Generated /\ \E k \in ActiveRows : k # LastActiveRow /\ gui.layerAlpha[k] = 1)
          => Rejected

C16_Witness ==
    /\ Generated
    /\ err = "ok"
    /\ Len(files[ConfigPath].layers) = 3

\* the row of the projection grid that a menu selection names is unchecked,
\* or its field of that kind is blank
Missing(sel, field) == ~gui.checked[sel - 1] \/ strip(field[sel - 1]) = ""

ResolvesIn(doc, name) ==
    Cardinality({j \in 1..Len(doc.projections) : doc.projections[j].name = name}) = 1

ReferenceIntegrity ==
    \A doc \in Documents : \A k \in 1..Len(doc.layers) :
        /\ ResolvesIn(doc, doc.layers[k].colorProjectionName)
        /\ doc.layers[k].transparencyProjectionName # NoValue
              => ResolvesIn(doc, doc.layers[k].transparencyProjectionName)

\* C17 as stated: every written document has reference integrity, and a
\* window in which a layer row selects, as color or as alpha, a projection
\* whose box is unchecked or whose image field is empty is rejected with
\* ConfigGenerationError.
C17_EverySelectionChecked ==
    /\ ReferenceIntegrity
    /\ (Generated /\ \E k \in 1..maxLayers :
            \/ gui.layerColor[k] > 1 /\ Missing(gui.layerColor[k], gui.color)
            \/ gui.layerAlpha[k] > 1 /\ Missing(gui.layerAlpha[k], gui.alpha))
          => Rejected

\* C17: every written document has reference integrity: each color and each
\* transparency reference of a layer names exactly one projection element of
\* the same document.  A window is rejected with ConfigGenerationError when
\* the color selection of an active layer row, or the alpha selection of an
\* active row other than the last, names a projection whose box is unchecked
\* or whose image field of that kind is blank.
C17_UsedSelectionsChecked ==
    /\ ReferenceIntegrity
    /\ (Generated /\ \E k \in ActiveRows :
            \/ Missing(gui.layerColor[k], gui.color)
            \/ k # LastActiveRow /\ gui.layerAlpha[k] > 1
                  /\ Missing(gui.layerAlpha[k], gui.alpha))
          => Rejected

C17_Witness ==
    /\ Generated
    /\ err = "ok"
    /\ Len(files[ConfigPath].layers) = 2
    /\ gui.layerAlpha[LastActiveRow] > 1
    /\ Missing(gui.layerAlpha[LastActiveRow], gui.alpha)

-----------------------------------------------------------------------------
(* Stage buttons pressed on an invalid window *)

TargetNames == {strip(gui.targets[k]) : k \in 1..Len(gui.targets)} \ {""}

InvalidTargets ==
    \/ TargetNames = {}
    \/ \E t \in TargetNames : t \notin ExistingObjects
    \/ \E t \in TargetNames \cap DOMAIN ShaderGeometry : ShaderGeometry[t] = NoValue

InvalidSelections ==
    \E k \in ActiveRows :
        \/ Missing(gui.layerColor[k], gui.color)
        \/ k # LastActiveRow /\ gui.layerAlpha[k] = 1
        \/ k # LastActiveRow /\ Missing(gui.layerAlpha[k], gui.alpha)

MalformedNumber ==
    \/ strip(gui.padding) \notin DOMAIN FloatStr
    \/ \E t \in {gui.screenshotRes, gui.convertedResWidth, gui.convertedResHeight} :
          strip(t) \notin DOMAIN IntValue

InvalidWindow ==
    InvalidTargets \/ gui.outdir # OutputDirectory \/ InvalidSelections \/ MalformedNumber

\* C18: whichever of the seven buttons is pressed, when the target list is
\* empty, a target does not exist, a shader target has no geometry, the
\* output directory does not exist, a layer selection is invalid or a number
\* field is malformed, the callback ends in makeP2T: no stage method runs, and
\* the scene and the files, config.xml included, are as before the press.
C18_InvalidWindowStopsStage ==
    (InvalidWindow /\ call # "none") =>
        /\ call = "makeP2T" /\ pc = "done" /\ err # "ok"
        /\ Snapshot = before

C18_Witness ==
    /\ InvalidWindow
    /\ history = <<"make_layered_shader", "clear_nodes">>
    /\ call = "makeP2T"
    /\ fileExists(files, ConfigPath)
    /\ nodes # EmptyFn

-----------------------------------------------------------------------------
(* Names of the nodes a stage creates *)

\* C22: whatever stages are invoked and repeated, a stage creates a node only
\* while its script-chosen name is free, so every node the script created
\* carries the name the script chose (the host never had to pick another
\* name) and that name denotes the node just created.
C22_CreatedUnderChosenName ==
    \A nm \in DOMAIN nodes : nm.n = 0

-----------------------------------------------------------------------------
(* Load Configuration and the files it touches *)

\* The user selected an existing file in the Load Configuration dialog and
\* the handler ran to its end or to an exception.
FileSelected ==
    /\ call = "loadConfigMenuItem"
    /\ pc = "done"
    /\ "path" \in DOMAIN loc

\* C23: Load Configuration never loses data: for every existing file the
\* user selects, the output directory's own config.xml included, afterwards
\* the selected file exists with the content it had and the output
\* directory's config.xml exists with that same content.
C23_LoadKeepsFiles ==
    FileSelected =>
        /\ fileExists(files, loc.path)
        /\ files[loc.path] = before.files[loc.path]
        /\ fileExists(files, ConfigPath)
        /\ files[ConfigPath] = before.files[loc.path]

-----------------------------------------------------------------------------
(* Layers of the object a stage button runs on *)

\* C24: through the window no stage runs with an empty layer list: every
\* object makeP2T returns to a stage callback has at least one layer, and
\* combine never fails for want of a base layer.
C24_StagesHaveLayers ==
    /\ (call = "makeP2T" /\ pc = "idle") => Len(layers) >= 1
    /\ (call = "combine" /\ pc = "done") => err # "IndexError"

-----------------------------------------------------------------------------
(* Reset after stages and edits of the window *)

\* Nodes the stages create, by the kind of name the script gives them.
StageNodes ==
    {nm \in DOMAIN nodes :
        nm.prefix \in {"place3dTex_", "proj_", "projFile_", "layerMat_",
                       "layered_shader", "_shader", "_file"}}

\* C21: after Reset has run, whatever stages were invoked and whatever edits
\* of the window and of the target list came between them, no node created
\* by a stage is left in the scene.
C21_ResetRemovesStageNodes ==
    (call = "clear_nodes" /\ pc = "done" /\ err = "ok") => StageNodes = {}

====
